---- MODULE Spec2Model ----
(***************************************************************************)
(* InnerVoice: the audio job pipeline of src/bot/bot.py (handle_voice,     *)
(* retry_callback, audio_worker, process_audio_async, main) and the        *)
(* client side of the inference protocol (_call_whisper_api).              *)
(*                                                                         *)
(* The bot is one asyncio event loop.  Code between two awaits that really *)
(* suspend runs atomically, so every action below is one such stretch of   *)
(* a handler or of the worker, and pc is the await at which the worker is  *)
(* suspended.  Variables marked "history" record what happened; no action  *)
(* reads them to decide what the program does.                             *)
(***************************************************************************)
EXTENDS Integers, Sequences, FiniteSets, TLC

\* ---------------------------------------------------------------- bounds
Users == {1, 2}
Modes == {"fast", "full"}
TickSteps == {30, 601}
MaxVoice == 2
MaxRetry == 1
MaxSegments == 2
MaxLongSegments == 7
MaxSends == 4
MaxText == 2
MaxRuns == 3
MaxDepth == 4
MaxStarts == 2
MaxTicks == 1
MaxRequests == 2
MaxClock == 960

\* ------------------------------------------------------ program constants
DUPLICATE_COOLDOWN_SEC == 60
LAST_PROCESSED_MAX_AGE == 600
MAX_LENGTH == 4096
CHUNK_SIZE_SECONDS == 30
WHISPER_RETRIES == 2
VRAM_THRESHOLD_FREE_MB == 2048
IDLE_UNLOAD_SECONDS == 900
IDLE_CHECK_INTERVAL_SECONDS == 60

None == "none"
NoResponse == [status |-> -1, body |-> "none"]
NoExchange == [step |-> "none"]
NoText == [step |-> "none"]

VARIABLES
    now,             \* time.time(), seconds
    ticks,           \* number of clock advances so far
    user_mode,       \* user_preferences[u]["mode"]
    downloading,     \* handle_voice invocations suspended in bot.download
    audio_queue,     \* asyncio.Queue of (user_id, file_id, file_path[, business id])
    files,           \* files present under AUDIO_DIR
    last_processed,  \* dict (user_id, file_id) -> timestamp
    pending_retry,   \* dict user_id -> (file_id, file_path)
    answering,       \* per user: retry_callback invocations suspended before their del
    alive,           \* audio_worker_task not cancelled
    pc,              \* await at which the worker is suspended
    job,             \* the item audio_worker got last
    segments,        \* list of segment paths of the running job
    seg_i,           \* loop index i of enumerate(segments, 1)
    task,            \* "first" or "second" inference call of the iteration
    progress_msg_id, \* TRUE when the status message was sent
    full_transcription, \* TRUE when full_transcription.strip() is non-empty
    full_translation,   \* TRUE when full_translation.strip() is non-empty
    puts,            \* history: number of items put on audio_queue so far
    started,         \* history: number of items audio_worker got so far
    cleanups,        \* history: runs of the finally block (task_done calls)
    last_call,       \* history: the last inference call of the running job
    busy_seg,        \* history: the segment whose call raised WhisperBusyError, or 0
    tally,           \* history: calls, iterations and progress edits of the running job
    delivered,       \* history: texts sent for the last job
    outcome,         \* history: how the last job ended
    voices,          \* history: number of handle_voice invocations
    retries,         \* history: number of retry_callback invocations
    last_retry,      \* history: the last retry_callback invocation
    buttons,         \* history: the (user_id, file_id) of the Retry buttons sent
    \* ---- one call of _call_whisper_api
    cl_pc, attempt, requests, sleeps, resp, result,
    xchg,            \* one /transcribe exchange: form field, whisper result, body, result;
                     \* or its VRAM check: the statistics read and the verdict
    txt,             \* one text to deliver: send_text_in_chunks (the text, the calls
                     \* pending, the chunks) or format_with_timestamps (the segments)
    \* ---- whisper_server.py
    mono,            \* time.monotonic() of the server
    model,           \* _model is not None
    model_load_error,    \* _model_load_error is not None
    last_used_monotonic, \* _last_used_monotonic, Unset for None
    model_lock,      \* the thread holding _model_lock, or NoThread
    rq,              \* the request threads: where each is, what get_model returned, its answer
    w_pc,            \* where the idle-unload watcher is
    w_now,           \* its local now
    wake_at,         \* the end of its sleep
    loads,           \* history: loads begun
    unloads          \* history: unloads done

pipeVars == <<now, ticks, user_mode, downloading, audio_queue, files, last_processed,
              pending_retry, alive, pc, job, segments, seg_i, task, progress_msg_id,
              full_transcription, full_translation, puts, started, cleanups,
              last_call, busy_seg, tally, answering, delivered, outcome, voices, retries,
              last_retry, buttons>>
unitVars == <<xchg, txt>>
clientVars == <<cl_pc, attempt, requests, sleeps, resp, result, unitVars>>
sharedVars == <<model, model_load_error, last_used_monotonic, model_lock>>
watcherVars == <<w_pc, w_now, wake_at>>
serverVars == <<mono, sharedVars, rq, watcherVars, loads, unloads>>
vars == <<pipeVars, clientVars, serverVars>>

\* ------------------------------------------------------------------ texts
\* A str is kept as its runs: a sequence of [c, n], n > 0 times the token c, no two
\* neighbours with the same token.  A token is a character or, after _escape_html,
\* an entity.
TokLen(c) ==
    CASE c = "&amp;" -> 5
      [] c \in {"&lt;", "&gt;"} -> 4
      [] OTHER -> 1

\* len(text)
RECURSIVE TLen(_)
TLen(t) == IF t = <<>> THEN 0 ELSE Head(t).n * TokLen(Head(t).c) + TLen(Tail(t))

IsSpace(c) == c \in {" ", "\n"}

RECURSIVE LStrip(_)
LStrip(t) == IF t # <<>> /\ IsSpace(Head(t).c) THEN LStrip(Tail(t)) ELSE t
\* str.rstrip()
RECURSIVE RStrip(_)
RStrip(t) ==
    IF t # <<>> /\ IsSpace(t[Len(t)].c) THEN RStrip(SubSeq(t, 1, Len(t) - 1)) ELSE t
\* str.strip()
Strip(t) == RStrip(LStrip(t))

\* a + b
Cat(a, b) ==
    IF a = <<>> THEN b
    ELSE IF b = <<>> THEN a
    ELSE IF a[Len(a)].c = b[1].c
    THEN SubSeq(a, 1, Len(a) - 1) \o <<[c |-> b[1].c, n |-> a[Len(a)].n + b[1].n]>> \o Tail(b)
    ELSE a \o b

\* text[:k] and text[k:]
RECURSIVE Take(_, _)
Take(t, k) ==
    IF k <= 0 \/ t = <<>> THEN <<>>
    ELSE IF Head(t).n <= k THEN <<Head(t)>> \o Take(Tail(t), k - Head(t).n)
    ELSE <<[c |-> Head(t).c, n |-> k]>>
RECURSIVE Drop(_, _)
Drop(t, k) ==
    IF k <= 0 \/ t = <<>> THEN t
    ELSE IF Head(t).n <= k THEN Drop(Tail(t), k - Head(t).n)
    ELSE <<[c |-> Head(t).c, n |-> Head(t).n - k]>> \o Tail(t)
\* text[start:end]
Slice(t, start, end) == Take(Drop(t, start), end - start)

\* the texts of up to k of the runs rs
RunTexts(rs, k) ==
    {t \in UNION {[1..m -> rs] : m \in 0..k} : \A i \in 1..(Len(t) - 1) : t[i].c # t[i + 1].c}

\* ------------------------------------------------------------------ paths
\* os.path.join(AUDIO_DIR, f"{file_id}.ogg")
SourcePath(fid) == <<fid, "ogg", 0>>
\* Path(file_path).with_suffix(".wav")
WavPath(path) == <<path[1], "wav", 0>>
\* output_template % index: <stem>_part<index>.wav
PartPath(wav, index) == <<wav[1], "part", index>>

\* a queue item (user_id, file_id, file_path); via tells the handler that put it (the
\* 4-tuple of handle_voice or the 3-tuple of retry_callback); at and ticket are history
\* fields: the time of the handle_voice check and the number of the put
NoJob == [user |-> 0, file_id |-> None, file_path |-> <<>>, via |-> None, at |-> 0,
          ticket |-> 0]
Item(u, fid, path, via, at, n) ==
    [user |-> u, file_id |-> fid, file_path |-> path, via |-> via, at |-> at, ticket |-> n]
NoCall == [seg |-> 0, task |-> None, res |-> None]
\* calls: inference calls made; fast: iterations begun in fast mode; clean: every call
\* so far returned a result; updates: update_progress calls; shown: the "current" value
\* of the last update_progress call, or -1; tries: attempts of the last
\* send_message_safe; unsent: sends and edits of the job that did not arrive
NoTally == [calls |-> 0, fast |-> 0, clean |-> TRUE, updates |-> 0, shown |-> -1,
            tries |-> 0, unsent |-> 0]
NoRetry == [user |-> 0, button |-> None, pending |-> <<>>, ended |-> TRUE,
            answer |-> None]

\* ---------------------------------------------------------------- dicts
EmptyDict == [k \in {} |-> {}]
\* d[k] = v
PutIfAbsent(d, k, v) == [x \in DOMAIN d \cup {k} |-> IF x \in DOMAIN d THEN d[x] ELSE v]
Put(d, k, v) == [x \in DOMAIN d \cup {k} |-> IF x = k THEN v ELSE d[x]]
\* del d[k]
Del(d, k) == [x \in DOMAIN d \ {k} |-> d[x]]

\* ------------------------------------------------------- duplicate guard
\* _evict_old_last_processed: drop entries with now - ts > LAST_PROCESSED_MAX_AGE
EvictNone(lp, t) == lp
EvictOld(lp, t) ==
    [k \in {x \in DOMAIN lp : ~(t - lp[x] > LAST_PROCESSED_MAX_AGE)} |-> lp[k]]

\* handle_voice: key in last_processed and (now - last_processed[key]) < cooldown
IsDuplicate(lp, k, t) == k \in DOMAIN lp /\ (t - lp[k]) < DUPLICATE_COOLDOWN_SEC

\* ------------------------------------------------------------ the queue
\* a queue that hands out the newest item first
NextItemNewest(q) == q[Len(q)]

\* audio_queue.get(): the oldest item
NextItem(q) == Head(q)

\* a worker that calls get() again while the translation is still being delivered
WorkerReadyEarly == alive /\ pc \in {"idle", "deliver2"}

\* audio_worker awaits process_audio_async before it calls get() again
WorkerReady == alive /\ pc = "idle"

\* ------------------------------------------------------------ split_audio
\* the scan of split_audio: the paths of part 0, 1, ... up to the first missing one
\* a scan that steps over missing indices and collects every part on disk
RECURSIVE ScanEvery(_, _, _)
ScanEvery(fs, wav, index) ==
    IF index > MaxLongSegments
    THEN <<>>
    ELSE (IF PartPath(wav, index) \in fs THEN <<PartPath(wav, index)>> ELSE <<>>)
            \o ScanEvery(fs, wav, index + 1)
RECURSIVE ScanFrom(_, _, _)
ScanFrom(fs, wav, index) ==
    IF PartPath(wav, index) \notin fs
    THEN <<>>
    ELSE <<PartPath(wav, index)>> \o ScanFrom(fs, wav, index + 1)

ScanSegments(fs, wav) == ScanFrom(fs, wav, 0)

\* the files ffmpeg -f segment writes: part 0 .. n-1
Parts(wav, n) == {PartPath(wav, k) : k \in 0..(n - 1)}

\* the finally block of process_audio_async: unlink file_path and wav_path
CleanupNothing(fs, j) == fs
CleanupFiles(fs, j) == fs \ {j.file_path, WavPath(j.file_path)}

\* the finally clause of one loop iteration: unlink the segment unless it is wav_path
DropSegmentAlways(fs, seg, wav) == fs \ {seg}
DropSegment(fs, seg, wav) == IF seg # wav THEN fs \ {seg} ELSE fs

\* ------------------------------------------------------------------ Init
\* the module-level state of bot.py and a worker waiting at audio_queue.get()
InitBot ==
    /\ now = 0
    /\ ticks = 0
    /\ user_mode = [u \in Users |-> "full"]
    /\ downloading = {}
    /\ audio_queue = <<>>
    /\ files = {}
    /\ last_processed = EmptyDict
    /\ pending_retry = EmptyDict
    /\ answering = [u \in Users |-> 0]
    /\ alive = TRUE
    /\ pc = "idle"
    /\ job = NoJob
    /\ segments = <<>>
    /\ seg_i = 0
    /\ task = "first"
    /\ progress_msg_id = FALSE
    /\ full_transcription = FALSE
    /\ full_translation = FALSE
    /\ puts = 0
    /\ started = 0
    /\ cleanups = 0
    /\ last_call = NoCall
    /\ busy_seg = 0
    /\ tally = NoTally
    /\ delivered = {}
    /\ outcome = None
    /\ voices = 0
    /\ retries = 0
    /\ last_retry = NoRetry
    /\ buttons = {}

\* _call_whisper_api before its first attempt
CallFresh ==
    /\ attempt = 0
    /\ requests = 0
    /\ sleeps = <<>>
    /\ resp = NoResponse
    /\ result = None
    /\ xchg = NoExchange
    /\ txt = NoText

\* the variables only the worker writes
jobVars == <<pc, job, segments, seg_i, task, progress_msg_id, full_transcription,
             full_translation, last_call, busy_seg, tally, delivered, outcome, started,
             cleanups>>
retryHist == <<retries, last_retry, buttons>>

\* audio_queue = asyncio.Queue(): maxsize 0, so full() is never true and put() never
\* waits
QueueFullAtOne(q) == Len(q) >= 1
QueueFull(q) == FALSE

\* ------------------------------------------------------- event handlers
\* time passes
Tick(d) ==
    /\ ticks < MaxTicks
    /\ now' = now + d
    /\ ticks' = ticks + 1
    /\ UNCHANGED <<user_mode, downloading, audio_queue, files, last_processed,
                   pending_retry, alive, puts, voices, answering, retryHist, jobVars,
                   clientVars, serverVars>>

\* process_mode_callback
SetMode(u, m) ==
    /\ user_mode[u] # m
    /\ user_mode' = [user_mode EXCEPT ![u] = m]
    /\ UNCHANGED <<now, ticks, downloading, audio_queue, files, last_processed,
                   pending_retry, alive, puts, voices, answering, retryHist, jobVars,
                   clientVars, serverVars>>

\* handle_voice up to the await of bot.download: eviction, then the duplicate check;
\* a duplicate gets the duplicate_skipped notice and the handler returns
HandleVoice(u, fid) ==
    LET lp == EvictOld(last_processed, now)
    IN  /\ voices < MaxVoice
        /\ voices' = voices + 1
        /\ last_processed' = lp
        /\ downloading' = IF IsDuplicate(lp, <<u, fid>>, now)
                          THEN downloading
                          ELSE downloading \cup {[user |-> u, file_id |-> fid, at |-> now,
                                                  n |-> voices + 1]}
        /\ UNCHANGED <<now, ticks, user_mode, audio_queue, files, pending_retry, alive,
                       puts, answering, retryHist, jobVars, clientVars, serverVars>>

\* handle_voice after bot.download: write the file, put the item on the queue;
\* a failed download raises out of the handler and nothing is enqueued
DownloadDone(d, ok) ==
    /\ d \in downloading
    /\ downloading' = downloading \ {d}
    /\ IF ok
       THEN /\ ~QueueFull(audio_queue)
            /\ files' = files \cup {SourcePath(d.file_id)}
            /\ audio_queue' = Append(audio_queue,
                   Item(d.user, d.file_id, SourcePath(d.file_id), "voice", d.at, puts + 1))
            /\ puts' = puts + 1
       ELSE UNCHANGED <<files, audio_queue, puts>>
    /\ UNCHANGED <<now, ticks, user_mode, last_processed, pending_retry, alive,
                   voices, answering, retryHist, jobVars, clientVars, serverVars>>

\* history record of one retry_callback invocation: the file_id in the callback data
\* retry_<file_id> of the button pressed, the entry it found, whether the job that
\* wrote that entry had already returned, and the answer given
RetryEntry(u, b, ans) ==
    [user |-> u,
     button |-> b,
     pending |-> IF u \in DOMAIN pending_retry THEN pending_retry[u] ELSE <<>>,
     ended |-> ~(pc = "busy_notice" /\ job.user = u),
     answer |-> ans]

\* retry_callback up to its first await.  With no entry it answers that nothing is
\* pending; with an entry whose file is gone it awaits the answer "ya no disponible"
\* before the del; otherwise it puts the 3-tuple (put() on the unbounded queue does
\* not suspend) and deletes the entry
RetryCallback(u, b) ==
    /\ retries < MaxRetry
    /\ retries' = retries + 1
    /\ IF u \notin DOMAIN pending_retry
       THEN /\ last_retry' = RetryEntry(u, b, "nothing_pending")
            /\ UNCHANGED <<pending_retry, audio_queue, puts, answering>>
       ELSE LET fid == pending_retry[u][1]
                path == pending_retry[u][2]
            IN  IF path \notin files
                THEN /\ last_retry' = RetryEntry(u, b, "unavailable")
                     /\ answering' = [answering EXCEPT ![u] = @ + 1]
                     /\ UNCHANGED <<pending_retry, audio_queue, puts>>
                ELSE /\ ~QueueFull(audio_queue)
                     /\ audio_queue' = Append(audio_queue,
                                              Item(u, fid, path, "retry", now, puts + 1))
                     /\ puts' = puts + 1
                     /\ pending_retry' = Del(pending_retry, u)
                     /\ last_retry' = RetryEntry(u, b, "enqueued")
                     /\ UNCHANGED answering
    /\ UNCHANGED <<now, ticks, user_mode, downloading, files, last_processed, alive,
                   voices, buttons, jobVars, clientVars, serverVars>>

\* retry_callback after the answer "ya no disponible": del pending_retry[user_id],
\* a KeyError when the entry is gone by then
RetryDelete(u) ==
    /\ answering[u] > 0
    /\ answering' = [answering EXCEPT ![u] = @ - 1]
    /\ pending_retry' = IF u \in DOMAIN pending_retry
                        THEN Del(pending_retry, u) ELSE pending_retry
    /\ UNCHANGED <<now, ticks, user_mode, downloading, audio_queue, files, last_processed,
                   alive, puts, voices, retryHist, jobVars, clientVars, serverVars>>
\* ------------------------------------------------------------ the worker
Tools == {"convert_fail", "convert_partial", "small", "split_fail", "split"}

\* what the external media tool leaves on disk for file_path: a failed conversion leaves
\* no .wav or a partial one; a split (failed or not) leaves the parts it wrote
FilesAfterTools(fs, path, tool, n) ==
    LET wav == WavPath(path)
    IN  CASE tool = "convert_fail"    -> fs
          [] tool = "convert_partial" -> fs \cup {wav}
          [] tool = "small"           -> fs \cup {wav}
          [] OTHER                    -> fs \cup {wav} \cup Parts(wav, n)

\* segments = await split_audio(wav_path) if st_size > 1 MiB else [wav_path]
SegmentList(fs, path, tool) ==
    IF tool = "small" THEN <<WavPath(path)>> ELSE ScanSegments(fs, WavPath(path))

\* audio_worker: get() the next item and run process_audio_async up to its first
\* await: ffprobe, the exists check, ffmpeg, split_audio
StartJob(tool, n) ==
    /\ WorkerReady
    /\ audio_queue # <<>>
    /\ LET item == NextItem(audio_queue)
           fs == FilesAfterTools(files, item.file_path, tool, n)
           segs == SegmentList(fs, item.file_path, tool)
       IN  /\ audio_queue' = Tail(audio_queue)
           /\ started' = started + 1
           /\ job' = item
           /\ delivered' = {}
           /\ outcome' = None
           /\ tally' = NoTally
           /\ IF item.file_path \notin files
              THEN /\ pc' = "notice"
                   /\ segments' = <<>>
                   /\ UNCHANGED files
              ELSE /\ files' = fs
                   /\ IF tool \in {"convert_fail", "convert_partial", "split_fail"}
                      THEN /\ pc' = "notice"
                           /\ segments' = <<>>
                      ELSE /\ segments' = segs
                           /\ pc' = IF segs = <<>> THEN "notice" ELSE "status"
    /\ UNCHANGED <<now, ticks, user_mode, downloading, last_processed, pending_retry,
                   alive, puts, cleanups, voices, retryHist, seg_i, task,
                   progress_msg_id, full_transcription, full_translation, last_call,
                   busy_seg, answering, clientVars, serverVars>>

\* the finally block: unlink the files, audio_queue.task_done(); process_audio_async
\* returns, its locals are gone, and the worker is back at audio_queue.get()
FinishWith(fs, how, tl) ==
    /\ files' = CleanupFiles(fs, job)
    /\ cleanups' = cleanups + 1
    /\ outcome' = how
    /\ pc' = "idle"
    /\ segments' = <<>>
    /\ seg_i' = 0
    /\ task' = "first"
    /\ progress_msg_id' = FALSE
    /\ full_transcription' = FALSE
    /\ full_translation' = FALSE
    /\ last_call' = NoCall
    /\ busy_seg' = 0
    /\ tally' = [NoTally EXCEPT !.unsent = tl.unsent]

FinishFrom(fs, how) == FinishWith(fs, how, tally)

Finish(how) == FinishFrom(files, how)

\* ------------------------------------------------------------- sending
\* what Telegram does with each of the sends tried: TRUE for a message sent
SendOutcomes == [1..MaxSends -> BOOLEAN]

\* send_message_safe: for attempt in range(3): return msg, or log the exception;
\* after the loop return None
RECURSIVE SendLoopFour(_, _)
SendLoopFour(o, a) ==
    IF a >= 4 THEN [msg |-> FALSE, tries |-> a]
    ELSE IF o[a + 1] THEN [msg |-> TRUE, tries |-> a + 1]
    ELSE SendLoopFour(o, a + 1)
RECURSIVE SendLoop(_, _)
SendLoop(o, a) ==
    IF a >= 3 THEN [msg |-> FALSE, tries |-> a]
    ELSE IF o[a + 1] THEN [msg |-> TRUE, tries |-> a + 1]
    ELSE SendLoop(o, a + 1)

send_message_safe(o) == SendLoop(o, 0)

\* the tally after a send_message_safe
Sent(tl, r) ==
    [tl EXCEPT !.tries = r.tries, !.unsent = IF r.msg THEN @ ELSE @ + 1]

\* the tally after update_progress, which logs a failed edit and returns
Edited(tl, shows, ok) ==
    IF shows /\ ~ok THEN [tl EXCEPT !.unsent = @ + 1] ELSE tl

\* a failure notice was sent (or its three attempts failed): return through finally
FailNotice ==
    /\ alive /\ pc = "notice"
    /\ Finish("failed")
    /\ UNCHANGED <<now, ticks, user_mode, downloading, audio_queue, last_processed,
                   answering, pending_retry, alive, job, puts, started, delivered, voices,
                   retryHist, clientVars, serverVars>>

\* if progress_msg_id: if len(segments) <= 5 or i % 2 == 0: await update_progress(...)
ShowsProgressAlways(msg, i, n) == msg
ShowsProgress(msg, i, n) == msg /\ (n <= 5 \/ i % 2 = 0)

\* iteration i of the segment loop begins: update_progress(.., i - 1, len(segments), ..)
BeginIteration(tl, msg, i, n) ==
    IF ShowsProgress(msg, i, n)
    THEN [tl EXCEPT !.updates = @ + 1, !.shown = i - 1]
    ELSE tl

\* send_message_safe of the status message returned: a message, or None; then the
\* first iteration begins
StatusSent(o) ==
    /\ alive /\ pc = "status"
    /\ LET r == send_message_safe(o)
           n == Len(segments)
       IN  /\ progress_msg_id' = r.msg
           /\ \E edited \in BOOLEAN :
                 tally' = Edited(BeginIteration(Sent(tally, r), r.msg, 1, n),
                                 ShowsProgress(r.msg, 1, n), edited)
    /\ seg_i' = 1
    /\ task' = "first"
    /\ pc' = "loop"
    /\ UNCHANGED <<now, ticks, user_mode, downloading, audio_queue, files, last_processed,
                   pending_retry, alive, job, segments, full_transcription,
                   full_translation, puts, started, cleanups, last_call, busy_seg,
                   answering, delivered, outcome, voices, retryHist, clientVars, serverVars>>

\* ----------------------------------------------------- the segment loop
\* what one call of process_audio_chunk can give back: a result, WhisperBusyError,
\* or any other exception
CallResults == {"ok", "busy", "error"}

\* the task of the call: fast mode translates; full mode transcribes, then translates
TaskOfFull(m, t) == IF t = "first" THEN "transcribe" ELSE "translate"
TaskOf(m, t) == IF t = "first" /\ m = "full" THEN "transcribe" ELSE "translate"

\* except WhisperBusyError: gpu_busy_raised = True; break
AbortsLoopAny(res) == res # "ok"
AbortsLoop(res) == res = "busy"

\* one await of process_audio_chunk returns or raises, and the code up to the next await
InferStep(res) ==
    /\ alive /\ pc = "loop"
    /\ LET m == user_mode[job.user]
           seg == segments[seg_i]
           wav == WavPath(job.file_path)
           t == TaskOf(m, task)
           more == res = "ok" /\ t = "transcribe"
           counted == [tally EXCEPT !.calls = @ + 1,
                                    !.clean = @ /\ res = "ok",
                                    !.fast = IF task = "first" /\ m = "fast"
                                             THEN @ + 1 ELSE @]
       IN  /\ last_call' = [seg |-> seg_i, task |-> t, res |-> res]
           /\ busy_seg' = IF res = "busy" THEN seg_i ELSE busy_seg
           /\ full_transcription' = (full_transcription \/ (t = "transcribe" /\ res = "ok"))
           /\ full_translation' = (full_translation \/ (t = "translate" /\ res = "ok"))
           /\ IF more
              THEN \* the translate call of the same segment follows
                   /\ task' = "second"
                   /\ tally' = counted
                   /\ UNCHANGED <<files, pc, seg_i, pending_retry, last_processed>>
              ELSE /\ files' = DropSegment(files, seg, wav)
                   /\ task' = "first"
                   /\ IF AbortsLoop(res)
                      THEN /\ pending_retry' = Put(pending_retry, job.user,
                                                    <<job.file_id, job.file_path>>)
                           /\ pc' = "busy_notice"
                           /\ tally' = counted
                           /\ UNCHANGED <<seg_i, last_processed>>
                      ELSE IF seg_i < Len(segments)
                           THEN /\ seg_i' = seg_i + 1
                                /\ \E edited \in BOOLEAN :
                                      tally' = Edited(
                                          BeginIteration(counted, progress_msg_id,
                                                         seg_i + 1, Len(segments)),
                                          ShowsProgress(progress_msg_id, seg_i + 1,
                                                        Len(segments)),
                                          edited)
                                /\ UNCHANGED <<pc, pending_retry, last_processed>>
                           ELSE /\ last_processed' = Put(last_processed,
                                                       <<job.user, job.file_id>>, now)
                                /\ pc' = "deliver"
                                /\ tally' = counted
                                /\ UNCHANGED <<seg_i, pending_retry>>
    /\ UNCHANGED <<now, ticks, user_mode, downloading, audio_queue, alive, job, segments,
                   progress_msg_id, puts, started, cleanups, answering, delivered, outcome,
                   voices, retryHist>>

\* the same, the call taken as a whole with any of its results
Infer(res) == InferStep(res) /\ UNCHANGED <<clientVars, serverVars>>

\* the busy notice with the Retry button was sent: return through finally
BusyNotice ==
    /\ alive /\ pc = "busy_notice"
    /\ Finish("busy")
    /\ buttons' = buttons \cup {<<job.user, job.file_id>>}
    /\ UNCHANGED <<now, ticks, user_mode, downloading, audio_queue, last_processed,
                   answering, pending_retry, alive, job, puts, started, delivered, voices,
                   retries, last_retry, clientVars, serverVars>>

\* the final status edit, then the transcription when the mode is full; o tells how
\* the sends went
DeliverTranscription(o) ==
    /\ alive /\ pc = "deliver"
    /\ LET r == send_message_safe(o)
           due == user_mode[job.user] = "full" /\ full_transcription
       IN  /\ delivered' = IF due /\ r.msg
                           THEN delivered \cup {"transcription"} ELSE delivered
           /\ tally' = IF due THEN Sent(tally, r) ELSE tally
    /\ pc' = "deliver2"
    /\ UNCHANGED <<now, ticks, user_mode, downloading, audio_queue, files, last_processed,
                   pending_retry, alive, job, segments, seg_i, task, progress_msg_id,
                   full_transcription, full_translation, puts, started, cleanups,
                   last_call, busy_seg, answering, outcome, voices, retryHist,
                   clientVars, serverVars>>

\* the translation, the statistics, then the finally block
DeliverTranslation(o) ==
    /\ alive /\ pc = "deliver2"
    /\ LET r == send_message_safe(o)
       IN  /\ delivered' = IF full_translation /\ r.msg
                           THEN delivered \cup {"translation"} ELSE delivered
           /\ FinishWith(files, "delivered",
                         IF full_translation THEN Sent(tally, r) ELSE tally)
    /\ UNCHANGED <<now, ticks, user_mode, downloading, audio_queue, last_processed,
                   answering, pending_retry, alive, job, puts, started, voices, retryHist,
                   clientVars, serverVars>>

\* send_text_in_chunks raises at line 909 or 919 (the RecursionError of
\* _chunk_then_escape, for a text it cannot split); the header before it was sent
\* with outcomes o; control goes to the except Exception block
ChunksRaise(o) ==
    /\ alive /\ pc \in {"deliver", "deliver2"}
    /\ IF pc = "deliver"
       THEN user_mode[job.user] = "full" /\ full_transcription
       ELSE full_translation
    /\ tally' = Sent(tally, send_message_safe(o))
    /\ pc' = "raised"
    /\ UNCHANGED <<now, ticks, user_mode, downloading, audio_queue, files, last_processed,
                   pending_retry, alive, job, segments, seg_i, task, progress_msg_id,
                   full_transcription, full_translation, puts, started, cleanups,
                   last_call, busy_seg, answering, delivered, outcome, voices, retryHist,
                   clientVars, serverVars>>

\* except Exception: the transcription_failed notice was sent (or its three attempts
\* failed); then the finally block
RaisedNotice ==
    /\ alive /\ pc = "raised"
    /\ Finish("failed")
    /\ UNCHANGED <<now, ticks, user_mode, downloading, audio_queue, last_processed,
                   answering, pending_retry, alive, job, puts, started, delivered, voices,
                   retryHist, clientVars, serverVars>>

\* how a job ends when CancelledError reaches it at the await it is suspended in: one
\* cancelled while its failure or busy notice is being sent has failed or ended busy
\* already; one cancelled earlier or while delivering ends in none of the outcomes
Interrupted(at) ==
    CASE at = "notice"      -> "failed"
      [] at = "raised"      -> "failed"
      [] at = "busy_notice" -> "busy"
      [] OTHER              -> "cancelled"

\* main: start_polling returned or raised; its finally cancels audio_worker_task and
\* the loop polls again.  CancelledError reaches the worker at its current await and
\* leaves process_audio_async through the finally block; inside the segment loop it
\* passes the finally clause of the iteration first
PollingEnds ==
    /\ alive
    /\ alive' = FALSE
    /\ IF pc = "idle"
       THEN UNCHANGED <<files, cleanups, outcome, pc, segments, seg_i, task,
                        progress_msg_id, full_transcription, full_translation,
                        last_call, busy_seg, tally>>
       ELSE IF pc = "loop"
       THEN FinishFrom(DropSegment(files, segments[seg_i], WavPath(job.file_path)),
                       Interrupted(pc))
       ELSE Finish(Interrupted(pc))
    /\ UNCHANGED <<now, ticks, user_mode, downloading, audio_queue, last_processed,
                   answering, pending_retry, job, puts, started, delivered, voices, retryHist,
                   clientVars, serverVars>>

\* --------------------------------------------------- whisper_server.py
\* Flask serves every request in a thread of its own and the idle-unload watcher is
\* one more thread; the threads share _model, _model_load_error,
\* _last_used_monotonic and _model_lock.  A thread can be switched out between any
\* two statements, so every read or write of a shared variable is a step of its own;
\* the pc of a thread names the line of whisper_server.py it is about to execute.
Requests == 1..MaxRequests
Watcher == 0
NoThread == -1
Unset == -1
Kinds == {"transcribe", "no_audio", "health"}
\* free VRAM in MB as get_vram_stats gives it (total - used), Unset when it gives None
VramReadings == {Unset, 1024, 4096}
SrvSteps == {20}
\* since: history, time.monotonic() when the request in progress arrived, if kept
NoRequest == [pc |-> "new", kind |-> None, free |-> Unset, got |-> FALSE, resp |-> NoResponse,
              since |-> Unset]

\* check_vram_available
CheckVramOpen(free) == TRUE
CheckVram(free) == free = Unset \/ free >= VRAM_THRESHOLD_FREE_MB

\* get_model line 53 and line 61: if _model_load_error is not None: raise
LoadErrorIgnored(err) == FALSE
LoadErrorCached(err) == err

\* _unload_model_if_idle line 242 and line 248: idle for at least IDLE_UNLOAD_SECONDS
IdleLonger(t, last) == t - last > IDLE_UNLOAD_SECONDS
IdleLongEnough(t, last) == ~(t - last < IDLE_UNLOAD_SECONDS)

\* the module as imported with MODEL_PRELOAD unset: nothing loaded, the watcher thread
\* started and in its first sleep
InitServer ==
    /\ mono = 0
    /\ model = FALSE
    /\ model_load_error = FALSE
    /\ last_used_monotonic = Unset
    /\ model_lock = NoThread
    /\ rq = [i \in Requests |-> NoRequest]
    /\ w_pc = "sleep"
    /\ w_now = 0
    /\ wake_at = IDLE_CHECK_INTERVAL_SECONDS
    /\ loads = 0
    /\ unloads = 0

At(i, line) == rq[i].pc = line
Goto(i, line) == rq' = [rq EXCEPT ![i].pc = line]
Answer(i, status, body) ==
    rq' = [rq EXCEPT ![i].pc = "done", ![i].got = FALSE, ![i].since = Unset,
                     ![i].resp = [status |-> status, body |-> body]]

\* time passes while the watcher sleeps, up to the end of its sleep: the watcher wakes
\* on time and the few statements of one round of it take no time; request threads
\* can be held up for any time at any statement
SrvTick(d) ==
    /\ w_pc = "sleep"
    /\ mono + d <= wake_at
    /\ mono + d <= MaxClock
    /\ mono' = mono + d
    /\ UNCHANGED <<sharedVars, rq, watcherVars, loads, unloads, pipeVars, clientVars>>

\* a request arrives; the threads are numbered in the order of arrival; at is what
\* the history field since keeps of the time of arrival
ArriveAt(i, k, at) ==
    /\ At(i, "new")
    /\ \A j \in Requests : j < i => ~At(j, "new")
    /\ rq' = [rq EXCEPT ![i].pc = "start", ![i].kind = k, ![i].since = at]
    /\ UNCHANGED <<mono, sharedVars, watcherVars, loads, unloads, pipeVars, clientVars>>

\* an arrival whose time is not kept, and one whose time is kept
Arrive(i, k) == ArriveAt(i, k, Unset)
ArriveTimed(i, k) == ArriveAt(i, k, mono)

\* transcribe lines 145-156: no audio is a 400; too little free VRAM is the 503
\* gpu_busy; otherwise the audio is saved and get_model() is called.  The reading of
\* check_vram_available is kept with the request.
Admit(i, free) ==
    /\ At(i, "start") /\ rq[i].kind # "health"
    /\ IF rq[i].kind = "no_audio"
       THEN Answer(i, 400, "object")
       ELSE IF ~CheckVram(free)
       THEN rq' = [rq EXCEPT ![i].pc = "done", ![i].free = free, ![i].since = Unset,
                             ![i].resp = [status |-> 503, body |-> "gpu_busy"]]
       ELSE rq' = [rq EXCEPT ![i].pc = "g50", ![i].free = free]
    /\ UNCHANGED <<mono, sharedVars, watcherVars, loads, unloads, pipeVars, clientVars>>

\* health: VRAM stats only when _model is not None and get_vram_stats gives them
Health(i, stats) ==
    /\ At(i, "start") /\ rq[i].kind = "health"
    /\ Answer(i, 200, IF model /\ stats THEN "health_stats" ELSE "health_plain")
    /\ UNCHANGED <<mono, sharedVars, watcherVars, loads, unloads, pipeVars, clientVars>>

\* get_model line 50: the fast path when the model is loaded
GetModelCheck(i) ==
    /\ At(i, "g50")
    /\ Goto(i, IF model THEN "g51" ELSE "g53")
    /\ UNCHANGED <<mono, sharedVars, watcherVars, loads, unloads, pipeVars, clientVars>>

\* line 51 and line 59: _last_used_monotonic = time.monotonic()
Stamp(i) ==
    /\ At(i, "g51") \/ At(i, "g59") \/ At(i, "g80")
    /\ last_used_monotonic' = mono
    /\ IF At(i, "g80")
       THEN \* the end of the with block releases the lock
            /\ model_lock' = NoThread
            /\ Goto(i, "g85")
       ELSE /\ Goto(i, IF At(i, "g51") THEN "g52" ELSE "g60")
            /\ UNCHANGED model_lock
    /\ UNCHANGED <<mono, model, model_load_error, watcherVars, loads, unloads, pipeVars,
                   clientVars>>

\* line 52, line 60 and line 85: return _model, read again at the return
ReturnModel(i) ==
    /\ At(i, "g52") \/ At(i, "g60") \/ At(i, "g85")
    /\ rq' = [rq EXCEPT ![i].pc = "infer", ![i].got = model]
    /\ model_lock' = IF At(i, "g60") THEN NoThread ELSE model_lock
    /\ UNCHANGED <<mono, model, model_load_error, last_used_monotonic, watcherVars, loads,
                   unloads, pipeVars, clientVars>>

\* line 53: the cached load error is raised; transcribe answers 500 with its text
\* line 56: otherwise the thread goes for the lock
GetModelError(i) ==
    /\ At(i, "g53")
    /\ IF LoadErrorCached(model_load_error)
       THEN Answer(i, 500, "object")
       ELSE Goto(i, "g56")
    /\ UNCHANGED <<mono, sharedVars, watcherVars, loads, unloads, pipeVars, clientVars>>

\* threading.Lock: acquired only when no thread holds it
LockAny(holder) == TRUE
LockFree(holder) == holder = NoThread

\* line 56: with _model_lock
Acquire(i) ==
    /\ At(i, "g56")
    /\ LockFree(model_lock)
    /\ model_lock' = i
    /\ Goto(i, "g58")
    /\ UNCHANGED <<mono, model, model_load_error, last_used_monotonic, watcherVars, loads,
                   unloads, pipeVars, clientVars>>

\* line 58: the check again, inside the lock
LockedCheck(i) ==
    /\ At(i, "g58")
    /\ Goto(i, IF model THEN "g59" ELSE "g61")
    /\ UNCHANGED <<mono, sharedVars, watcherVars, loads, unloads, pipeVars, clientVars>>

\* line 61: the cached error inside the lock; lines 64-67: otherwise the load begins
LockedError(i) ==
    /\ At(i, "g61")
    /\ IF LoadErrorCached(model_load_error)
       THEN /\ Answer(i, 500, "object")
            /\ model_lock' = NoThread
            /\ UNCHANGED loads
       ELSE /\ Goto(i, "g67")
            /\ loads' = loads + 1
            /\ UNCHANGED model_lock
    /\ UNCHANGED <<mono, model, model_load_error, last_used_monotonic, watcherVars, unloads,
                   pipeVars, clientVars>>

\* lines 67-84: the probe and whisper.load_model end: _model is set (line 71), or the
\* exception is cached (line 82) and raised, which releases the lock
Load(i, ok) ==
    /\ At(i, "g67")
    /\ IF ok
       THEN /\ model' = TRUE
            /\ Goto(i, "g80")
            /\ UNCHANGED <<model_load_error, model_lock>>
       ELSE /\ model_load_error' = TRUE
            /\ model_lock' = NoThread
            /\ Answer(i, 500, "object")
            /\ UNCHANGED model
    /\ UNCHANGED <<mono, last_used_monotonic, watcherVars, loads, unloads, pipeVars,
                   clientVars>>

\* transcribe lines 169-194: get_model().transcribe(...) on what get_model returned:
\* None has no transcribe (a 500), a model gives a result or raises (a 500)
InferOutcomes == {"ok", "error"}
Transcribe(i, out) ==
    /\ At(i, "infer")
    /\ IF rq[i].got /\ out = "ok"
       THEN Answer(i, 200, "object")
       ELSE Answer(i, 500, "object")
    /\ UNCHANGED <<mono, sharedVars, watcherVars, loads, unloads, pipeVars, clientVars>>

\* ------------------------------------------------ _unload_model_if_idle
\* time.sleep(IDLE_CHECK_INTERVAL_SECONDS) at the top of the loop
Sleep ==
    /\ w_pc' = "sleep"
    /\ wake_at' = mono + IDLE_CHECK_INTERVAL_SECONDS

\* line 231: the sleep is over
WatcherWake ==
    /\ w_pc = "sleep"
    /\ mono >= wake_at
    /\ w_pc' = "w232"
    /\ UNCHANGED <<mono, sharedVars, rq, w_now, wake_at, loads, unloads, pipeVars,
                   clientVars>>

\* line 232: if _model is None: continue; line 235: now = time.monotonic()
WatcherCheck ==
    /\ w_pc = "w232"
    /\ IF model
       THEN /\ w_pc' = "w236"
            /\ w_now' = mono
            /\ UNCHANGED wake_at
       ELSE /\ Sleep
            /\ UNCHANGED w_now
    /\ UNCHANGED <<mono, sharedVars, rq, loads, unloads, pipeVars, clientVars>>

\* lines 236-243: last = _last_used_monotonic; a missing stamp is to be set; a model
\* idle for less than IDLE_UNLOAD_SECONDS is left alone
WatcherIdle ==
    /\ w_pc = "w236"
    /\ IF last_used_monotonic = Unset
       THEN w_pc' = "w238" /\ UNCHANGED wake_at
       ELSE IF IdleLongEnough(w_now, last_used_monotonic)
       THEN w_pc' = "w245" /\ UNCHANGED wake_at
       ELSE Sleep
    /\ UNCHANGED <<mono, sharedVars, rq, w_now, loads, unloads, pipeVars, clientVars>>

\* line 238: _last_used_monotonic = now
WatcherStamp ==
    /\ w_pc = "w238"
    /\ last_used_monotonic' = w_now
    /\ Sleep
    /\ UNCHANGED <<mono, model, model_load_error, model_lock, rq, w_now, loads, unloads,
                   pipeVars, clientVars>>

\* line 245: with _model_lock
WatcherAcquire ==
    /\ w_pc = "w245"
    /\ LockFree(model_lock)
    /\ model_lock' = Watcher
    /\ w_pc' = "w246"
    /\ UNCHANGED <<mono, model, model_load_error, last_used_monotonic, rq, w_now, wake_at,
                   loads, unloads, pipeVars, clientVars>>

\* line 246: if _model is None: continue
WatcherLockedCheck ==
    /\ w_pc = "w246"
    /\ IF model
       THEN w_pc' = "w248" /\ UNCHANGED <<model_lock, wake_at>>
       ELSE Sleep /\ model_lock' = NoThread
    /\ UNCHANGED <<mono, model, model_load_error, last_used_monotonic, rq, w_now, loads,
                   unloads, pipeVars, clientVars>>

\* line 248: the idleness is verified again, inside the lock
WatcherRecheck ==
    /\ w_pc = "w248"
    /\ IF last_used_monotonic # Unset /\ ~IdleLongEnough(mono, last_used_monotonic)
       THEN Sleep /\ model_lock' = NoThread
       ELSE w_pc' = "w258" /\ UNCHANGED <<model_lock, wake_at>>
    /\ UNCHANGED <<mono, model, model_load_error, last_used_monotonic, rq, w_now, loads,
                   unloads, pipeVars, clientVars>>

\* line 258: _model = None
WatcherUnload ==
    /\ w_pc = "w258"
    /\ model' = FALSE
    /\ unloads' = unloads + 1
    /\ w_pc' = "w259"
    /\ UNCHANGED <<mono, model_load_error, last_used_monotonic, model_lock, rq, w_now,
                   wake_at, loads, pipeVars, clientVars>>

\* lines 259-263: _last_used_monotonic = None, the cache is cleared, the lock released
WatcherClear ==
    /\ w_pc = "w259"
    /\ last_used_monotonic' = Unset
    /\ model_lock' = NoThread
    /\ Sleep
    /\ UNCHANGED <<mono, model, model_load_error, rq, w_now, loads, unloads, pipeVars,
                   clientVars>>

\* ------------------------------------------------- _call_whisper_api
\* One attempt ends with a response (status, body) or without one (status 0: an
\* aiohttp.ClientError, asyncio.TimeoutError or ConnectionError).  The body is what
\* resp.json() makes of it:
\*   gpu_busy, gpu_oom  a JSON object whose "error" is that word
\*   oom_text           a JSON object whose "error" text contains "out of memory"
\*   object             any other JSON object (the result, on a 200)
\*   not_json           the Content-Type is not JSON: resp.json() raises ContentTypeError
\*   bad_json           the Content-Type is JSON but the body is not a JSON object
\*                      (malformed, empty, a list): json() or body.get() raises an
\*                      error that is no aiohttp.ClientError
Statuses == {200, 400, 404, 500, 502, 503}
Bodies == {"gpu_busy", "gpu_oom", "oom_text", "object", "not_json", "bad_json"}
ConnFailure == [status |-> 0, body |-> "none"]
Responses == [status : Statuses, body : Bodies] \cup {ConnFailure}

\* a client that takes every 5xx other than 503 alike, whatever its body says
ClassifyPlain(r) ==
    CASE r.status = 0 -> "retry"
      [] r.status = 503 -> IF r.body = "bad_json" THEN "raise" ELSE "busy"
      [] r.status # 503 /\ r.status >= 400 ->
            IF r.status >= 500 /\ r.body = "bad_json" THEN "raise" ELSE "retry"
      [] OTHER ->
            IF r.body = "not_json" THEN "retry"
            ELSE IF r.body = "bad_json" THEN "raise"
            ELSE "return"

\* what the body of the loop does with one attempt:
\*   "return"  returns the result dictionary
\*   "busy"    raises WhisperBusyError
\*   "raise"   raises an error the except clause of the loop does not catch
\*   "retry"   sleeps and tries again, or raises when no attempt is left
Classify(r) ==
    CASE r.status = 0 -> "retry"
      [] r.status = 503 ->
            IF r.body = "bad_json" THEN "raise" ELSE "busy"
      [] r.status # 503 /\ r.status >= 500 ->
            IF r.body = "bad_json" THEN "raise"
            ELSE IF r.body = "oom_text" THEN "busy"
            ELSE "retry"
      [] r.status >= 400 /\ r.status < 500 -> "retry"
      [] OTHER ->
            IF r.body = "not_json" THEN "retry"
            ELSE IF r.body = "bad_json" THEN "raise"
            ELSE "return"

\* a constant wait between the attempts
BackoffFlat(a) == 3

\* await asyncio.sleep(3 * (attempt + 1))
Backoff(a) == 3 * (a + 1)

\* for attempt in range(WHISPER_RETRIES + 1): if attempt < WHISPER_RETRIES
MayRetry(a) == a < WHISPER_RETRIES

\* one request is sent and answered
ClientAttempt(r) ==
    /\ cl_pc = "send"
    /\ requests' = requests + 1
    /\ resp' = r
    /\ LET c == Classify(r)
       IN  CASE c = "return" ->
                  /\ result' = "dict" /\ cl_pc' = "done" /\ UNCHANGED sleeps
             [] c = "busy" ->
                  /\ result' = "busy" /\ cl_pc' = "done" /\ UNCHANGED sleeps
             [] c = "raise" ->
                  /\ result' = "error" /\ cl_pc' = "done" /\ UNCHANGED sleeps
             [] OTHER ->
                  IF MayRetry(attempt)
                  THEN /\ sleeps' = Append(sleeps, Backoff(attempt))
                       /\ cl_pc' = "sleep"
                       /\ UNCHANGED result
                  ELSE /\ result' = "error" /\ cl_pc' = "done" /\ UNCHANGED sleeps
    /\ UNCHANGED <<unitVars, attempt, pipeVars, serverVars>>

\* the sleep is over: the next iteration of the for loop
ClientWake ==
    /\ cl_pc = "sleep"
    /\ attempt' = attempt + 1
    /\ cl_pc' = "send"
    /\ UNCHANGED <<unitVars, requests, sleeps, resp, result, pipeVars, serverVars>>

\* ------------------------------------------- the /transcribe exchange
\* the texts whisper gives: blanks, line ends and letters
Chars == {" ", "\n", "a"}
Texts == RunTexts([c : Chars, n : {1}], MaxText)

\* the values the form field return_segments may carry; Missing when it is not sent
Missing == "(missing)"
FieldValues == {"1", "true", "yes", "True", "TRUE", "Yes", "false", "False", "0", "no", "on", ""}
\* str.lower()
Lower(s) ==
    CASE s \in {"true", "True", "TRUE"} -> "true"
      [] s \in {"yes", "Yes"} -> "yes"
      [] s \in {"false", "False"} -> "false"
      [] OTHER -> s
\* request.form.get(name, default)
FormGet(f, default) == IF f = Missing THEN default ELSE f

\* data.add_field("return_segments", str(return_segments).lower())
FormField(b) == Lower(IF b THEN "True" ELSE "False")

\* return_segments = request.form.get("return_segments", "false").lower() in (...)
ReturnSegmentsAny(f) == f # Missing
ReturnSegments(f) == Lower(FormGet(f, "false")) \in {"1", "true", "yes"}

\* what model.transcribe returns: a dictionary with a text and, as a rule, segments
Segs == {<<>>, <<"s1">>, <<"s1", "s2">>}
WhisperResults == [text : Texts] \cup [text : Texts, segments : Segs]

\* dict.get(key, default)
Get(d, k, default) == IF k \in DOMAIN d THEN d[k] ELSE default

\* out = {"text": ...}; if return_segments and "segments" in result: out["segments"] = ...
transcribe_out(f, res) ==
    LET out == [text |-> Strip(Get(res, "text", <<>>))]
    IN  IF ReturnSegments(f) /\ "segments" \in DOMAIN res
        THEN [text |-> out.text, segments |-> res.segments]
        ELSE out

\* return {"text": result.get("text", "").strip(), "segments": result.get("segments", [])}
api_result(body) ==
    [text |-> Strip(Get(body, "text", <<>>)), segments |-> Get(body, "segments", <<>>)]

\* _call_whisper_api posts its form
CallPost(b) ==
    /\ xchg.step = "none"
    /\ xchg' = [step |-> "posted", by |-> "bot", arg |-> b, field |-> FormField(b)]
    /\ UNCHANGED <<txt, cl_pc, attempt, requests, sleeps, resp, result, pipeVars, serverVars>>

\* any other client posts a form
OtherPost(f) ==
    /\ xchg.step = "none"
    /\ xchg' = [step |-> "posted", by |-> "other", arg |-> FALSE, field |-> f]
    /\ UNCHANGED <<txt, cl_pc, attempt, requests, sleeps, resp, result, pipeVars, serverVars>>

\* transcribe() answers 200 with the JSON of out
Respond(res) ==
    /\ xchg.step = "posted"
    /\ xchg' = [step |-> "answered", by |-> xchg.by, arg |-> xchg.arg, field |-> xchg.field,
                whisper |-> res, body |-> transcribe_out(xchg.field, res)]
    /\ UNCHANGED <<txt, cl_pc, attempt, requests, sleeps, resp, result, pipeVars, serverVars>>

\* result = await resp.json(); return {...}
CallReturn ==
    /\ xchg.step = "answered" /\ xchg.by = "bot"
    /\ xchg' = [step |-> "returned", by |-> xchg.by, arg |-> xchg.arg, field |-> xchg.field,
                whisper |-> xchg.whisper, body |-> xchg.body,
                result |-> api_result(xchg.body)]
    /\ UNCHANGED <<txt, cl_pc, attempt, requests, sleeps, resp, result, pipeVars, serverVars>>

\* ------------------------------------------------- send_text_in_chunks
Max(a, b) == IF a >= b THEN a ELSE b
Min(a, b) == IF a <= b THEN a ELSE b

Entity(c) ==
    CASE c = "&" -> "&amp;"
      [] c = "<" -> "&lt;"
      [] c = ">" -> "&gt;"
      [] OTHER -> c
\* text.replace("&", "&amp;").replace("<", "&lt;").replace(">", "&gt;")
_escape_html(t) == [i \in 1..Len(t) |-> [c |-> Entity(t[i].c), n |-> t[i].n]]

NewLine == <<[c |-> "\n", n |-> 1]>>

\* text.split("\n"); cur is the line begun
RECURSIVE SplitLines(_, _)
SplitLines(t, cur) ==
    IF t = <<>> THEN <<cur>>
    ELSE IF Head(t).c = "\n"
    THEN <<cur>> \o [i \in 1..(Head(t).n - 1) |-> <<>>] \o SplitLines(Tail(t), <<>>)
    ELSE SplitLines(Tail(t), Append(cur, Head(t)))

\* while start < len(line): chunks.append(line[start:min(start + max_length, len(line))])
RECURSIVE CharSplit(_, _, _)
CharSplit(line, start, max_length) ==
    IF ~(start < TLen(line)) THEN <<>>
    ELSE LET end == Min(start + max_length, TLen(line))
         IN  <<Slice(line, start, end)>> \o CharSplit(line, end, max_length)

\* if current: chunks.append(current.rstrip())
Flush(chunks, current) == IF current # <<>> THEN Append(chunks, RStrip(current)) ELSE chunks

\* for line in text.split("\n"): ... from line i on, and the flush after the loop
RECURSIVE LineLoop(_, _, _, _, _)
LineLoop(lines, i, chunks, current, max_length) ==
    IF i > Len(lines) THEN Flush(chunks, current)
    ELSE LET line == lines[i]
             line_avec == Cat(line, NewLine)
         IN  IF TLen(current) + TLen(line_avec) <= max_length
             THEN LineLoop(lines, i + 1, chunks, Cat(current, line_avec), max_length)
             ELSE IF TLen(line) <= max_length
             THEN LineLoop(lines, i + 1, Flush(chunks, current), line_avec, max_length)
             ELSE LineLoop(lines, i + 1,
                           Flush(chunks, current) \o CharSplit(line, 0, max_length),
                           <<>>, max_length)

\* if not text or not text.strip()
Blank(t) == t = <<>> \/ Strip(t) = <<>>

_split_text_chunks(t, max_length) ==
    IF Blank(t) THEN <<>>
    ELSE IF TLen(t) <= max_length THEN <<Strip(t)>>
    ELSE LineLoop(SplitLines(t, <<>>), 1, <<>>, <<>>, max_length)

\* raw_max = max(800, max_escaped - 100)
RawMax(max_escaped) == Max(800, max_escaped - 100)

\* len("<pre></pre>")
PRE_TAGS == 11
\* pre_max = max_length - 11
PreMax(max_length) == max_length - PRE_TAGS

\* the texts sent: runs of letters and of characters that grow when escaped, of
\* lengths about raw_max and pre_max, and short runs of blanks and line ends
RunLengths == {1, 818, 3985, 4086}
SentRuns == [c : {"a", "&", "<"}, n : RunLengths] \cup [c : {" ", "\n"}, n : {1, 2}]
SentTexts == RunTexts(SentRuns, MaxRuns)

\* a call of _chunk_then_escape(t, max_escaped) about to begin, d frames deep
CallOf(t, d) == [kind |-> "call", t |-> t, d |-> d]
\* a raw chunk the for loop of a call d frames deep has not looked at yet
RawOf(t, d) == [kind |-> "raw", t |-> t, d |-> d]

\* send_text_in_chunks(user_id, text, plain=True): copyable, max_length 4096
SendText(t) ==
    /\ txt.step = "none"
    /\ txt' = [step |-> "chunk", text |-> t, max |-> PreMax(MAX_LENGTH),
               work |-> <<CallOf(t, 1)>>, out |-> <<>>]
    /\ UNCHANGED <<xchg, cl_pc, attempt, requests, sleeps, resp, result, pipeVars, serverVars>>

\* _chunk_then_escape begins: a blank text gives []; otherwise the raw chunks of
\* _split_text_chunks(text, raw_max) are gone through in order.  A call deeper than the
\* interpreter allows raises RecursionError.
ChunkCall ==
    /\ txt.step = "chunk" /\ txt.work # <<>> /\ Head(txt.work).kind = "call"
    /\ LET call == Head(txt.work)
           raws == _split_text_chunks(call.t, RawMax(txt.max))
       IN  IF call.d > MaxDepth
           THEN txt' = [txt EXCEPT !.step = "RecursionError"]
           ELSE txt' = [txt EXCEPT !.work =
                           [i \in 1..Len(raws) |-> RawOf(raws[i], call.d)] \o Tail(txt.work)]
    /\ UNCHANGED <<xchg, cl_pc, attempt, requests, sleeps, resp, result, pipeVars, serverVars>>

\* escaped = _escape_html(raw): appended when it fits, else
\* out.extend(_chunk_then_escape(raw, max_escaped))
ChunkRaw ==
    /\ txt.step = "chunk" /\ txt.work # <<>> /\ Head(txt.work).kind = "raw"
    /\ LET raw == Head(txt.work)
           escaped == _escape_html(raw.t)
       IN  IF TLen(escaped) <= txt.max
           THEN txt' = [txt EXCEPT !.out = Append(@, escaped), !.work = Tail(@)]
           ELSE txt' = [txt EXCEPT !.work = <<CallOf(raw.t, raw.d + 1)>> \o Tail(@)]
    /\ UNCHANGED <<xchg, cl_pc, attempt, requests, sleeps, resp, result, pipeVars, serverVars>>

\* the chunks are there: each is sent as <pre>chunk</pre>; msgs are the lengths sent
SendChunks ==
    /\ txt.step = "chunk" /\ txt.work = <<>>
    /\ txt' = [step |-> "sent", text |-> txt.text, max |-> txt.max, work |-> <<>>,
               out |-> txt.out,
               msgs |-> [i \in 1..Len(txt.out) |-> PRE_TAGS + TLen(txt.out[i])]]
    /\ UNCHANGED <<xchg, cl_pc, attempt, requests, sleeps, resp, result, pipeVars, serverVars>>

\* ------------------------------------------------------ the VRAM check
\* get_vram_stats(): (used_mb, total_mb) as torch or rocm-smi report them, in steps of
\* 256 MB and one MB either side of the threshold, or (None, None)
VramTotals == {4096, 8192}
VramUsed(total) ==
    {u \in {256 * k : k \in 0..32}
              \cup {total - VRAM_THRESHOLD_FREE_MB - 1, total - VRAM_THRESHOLD_FREE_MB + 1} :
        u <= total}
VramStats ==
    {<<Unset, Unset>>} \cup UNION {{<<u, t>> : u \in VramUsed(t)} : t \in VramTotals}

\* a check that wants more than the threshold free
check_vram_strict(used_mb, total_mb) ==
    IF used_mb = Unset \/ total_mb = Unset
    THEN TRUE
    ELSE (total_mb - used_mb) > VRAM_THRESHOLD_FREE_MB

\* if used_mb is None or total_mb is None: return True
\* free_mb = total_mb - used_mb; return free_mb >= VRAM_THRESHOLD_FREE_MB
check_vram_available(used_mb, total_mb) ==
    IF used_mb = Unset \/ total_mb = Unset
    THEN TRUE
    ELSE (total_mb - used_mb) >= VRAM_THRESHOLD_FREE_MB

\* check_vram_available calls get_vram_stats, which returns s
VramRead(s) ==
    /\ xchg.step = "none"
    /\ xchg' = [step |-> "stats", used |-> s[1], total |-> s[2]]
    /\ UNCHANGED <<txt, cl_pc, attempt, requests, sleeps, resp, result, pipeVars, serverVars>>

\* check_vram_available returns
VramCheck ==
    /\ xchg.step = "stats"
    /\ xchg' = [step |-> "checked", used |-> xchg.used, total |-> xchg.total,
                ok |-> check_vram_available(xchg.used, xchg.total)]
    /\ UNCHANGED <<txt, cl_pc, attempt, requests, sleeps, resp, result, pipeVars, serverVars>>

\* ------------------------------------------ the time markers of a text
\* int(s['start']) of the segments one inference result reports: whole seconds from
\* the start of the file that was uploaded, which is one part of CHUNK_SIZE_SECONDS
\* seconds (or the unsplit recording), in order
StartValues == {0, 7, 29}
Ordered(s) == \A k \in 1..(Len(s) - 1) : s[k] <= s[k + 1]
ResultStarts ==
    {s \in UNION {[1..k -> StartValues] : k \in 0..MaxStarts} : Ordered(s)}

\* f"[{int(s['start'])//60:02d}:{int(s['start'])%60:02d}]": minutes and seconds
Marker(start) == [mm |-> start \div 60, ss |-> start % 60]
\* format_with_timestamps(text, segs): one line per segment, its marker first
format_with_timestamps(segs) == [k \in 1..Len(segs) |-> Marker(segs[k])]

\* where part i of split_audio begins in the recording (-segment_time)
PartOffset(i) == (i - 1) * CHUNK_SIZE_SECONDS

\* a job of n segments with timestamps enabled is at its segment loop; segs is
\* translation_segments (transcription_segments in full mode), at the place of each
\* of its segments in the whole recording
StampedJob(n) ==
    /\ txt.step = "none"
    /\ txt' = [step |-> "segments", n |-> n, i |-> 1, segs |-> <<>>, at |-> <<>>]
    /\ UNCHANGED <<xchg, cl_pc, attempt, requests, sleeps, resp, result, pipeVars, serverVars>>

\* the call for segment i returned: translation_segments.extend(result["segments"])
SegmentResult(starts) ==
    /\ txt.step = "segments"
    /\ txt' = [txt EXCEPT
                 !.segs = @ \o starts,
                 !.at = @ \o [k \in 1..Len(starts) |-> PartOffset(txt.i) + starts[k]],
                 !.i = @ + 1,
                 !.step = IF txt.i = txt.n THEN "format" ELSE "segments"]
    /\ UNCHANGED <<xchg, cl_pc, attempt, requests, sleeps, resp, result, pipeVars, serverVars>>

\* the delivery: text_to_send = format_with_timestamps(full_translation, segs)
FormatMarkers ==
    /\ txt.step = "format"
    /\ txt' = [step |-> "marked", n |-> txt.n, at |-> txt.at,
               lines |-> format_with_timestamps(txt.segs)]
    /\ UNCHANGED <<xchg, cl_pc, attempt, requests, sleeps, resp, result, pipeVars, serverVars>>

\* ------------------------------------- the worker calling _call_whisper_api
\* what process_audio_chunk hands to the segment loop
CallOutcome(r) ==
    CASE r = "dict" -> "ok"
      [] r = "busy" -> "busy"
      [] OTHER      -> "error"

\* the loop awaits process_audio_chunk: _call_whisper_api starts its first attempt
CallStart ==
    /\ alive /\ pc = "loop"
    /\ cl_pc = "off"
    /\ cl_pc' = "send"
    /\ attempt' = 0
    /\ requests' = 0
    /\ sleeps' = <<>>
    /\ resp' = NoResponse
    /\ result' = None
    /\ UNCHANGED <<unitVars, pipeVars, serverVars>>

\* _call_whisper_api returned or raised: the loop goes on with that
CallEnd ==
    /\ cl_pc = "done"
    /\ InferStep(CallOutcome(result))
    /\ cl_pc' = "off"
    /\ UNCHANGED <<unitVars, attempt, requests, sleeps, resp, result, serverVars>>

\* ------------------------------------------------------- specifications
\* the event handlers, for voice messages whose (user_id, file_id) is in ks
Handlers(ks) ==
    \/ \E k \in ks : HandleVoice(k[1], k[2])
    \/ \E d \in downloading, ok \in BOOLEAN : DownloadDone(d, ok)
    \/ \E k, b \in ks : RetryCallback(k[1], b[2])
    \/ \E k \in ks : RetryDelete(k[1])

\* audio_worker with process_audio_async outside its inference calls, and main
\* cancelling it; recordings of up to n segments
Pipeline(n) ==
    \/ \E tool \in Tools, k \in 0..n : StartJob(tool, k)
    \/ FailNotice
    \/ \E o \in SendOutcomes : StatusSent(o)
    \/ BusyNotice
    \/ \E o \in SendOutcomes : DeliverTranscription(o)
    \/ \E o \in SendOutcomes : DeliverTranslation(o)
    \/ PollingEnds

\* the worker, each inference call taken as a whole
Worker ==
    \/ Pipeline(MaxSegments)
    \/ \E res \in CallResults : Infer(res)

\* the bot and the server after start-up
Init == InitBot /\ cl_pc = "off" /\ CallFresh /\ InitServer

\* two owners who send the same voice message "a" (a forwarded one)
SharedKeys == {<<u, "a">> : u \in Users}
Next == Handlers(SharedKeys) \/ Worker

Spec == Init /\ [][Next]_vars

\* one owner who also changes the processing mode
OwnerKeys == {<<1, "a">>}
NextPrefs ==
    \/ Handlers(OwnerKeys)
    \/ \E k \in OwnerKeys, m \in Modes : SetMode(k[1], m)
    \/ Worker

SpecPrefs == Init /\ [][NextPrefs]_vars

\* one owner who sends two different voice messages
OwnerFiles == {<<1, "a">>, <<1, "b">>}
NextFiles == Handlers(OwnerFiles) \/ Worker

SpecFiles == Init /\ [][NextFiles]_vars

\* one owner, and time passing between the events
NextTime ==
    \/ Handlers(OwnerKeys)
    \/ \E d \in TickSteps : Tick(d)
    \/ Worker

SpecTime == Init /\ [][NextTime]_vars

\* the answers of a service that is up, busy, out of memory, failing or unreachable
CallResponses ==
    {r \in Responses : r.status \in {0, 200, 500, 503}
                         /\ r.body \in {"none", "object", "oom_text", "gpu_busy"}}

\* one owner, every inference call made attempt by attempt
NextCall ==
    \/ Handlers(OwnerKeys)
    \/ Pipeline(MaxSegments)
    \/ CallStart
    \/ \E r \in CallResponses : alive /\ ClientAttempt(r)
    \/ alive /\ ClientWake
    \/ CallEnd

SpecCall == Init /\ [][NextCall]_vars

\* one owner whose recordings are split in up to MaxLongSegments segments
NextLong ==
    \/ Handlers(OwnerKeys)
    \/ Pipeline(MaxLongSegments)
    \/ \E res \in CallResults : Infer(res)

SpecLong == Init /\ [][NextLong]_vars

\* one owner, and transcripts that send_text_in_chunks cannot split
NextRaise ==
    \/ Handlers(OwnerKeys)
    \/ Worker
    \/ \E o \in SendOutcomes : ChunksRaise(o)
    \/ RaisedNotice

SpecRaise == Init /\ [][NextRaise]_vars

\* the inference server: its request threads and its watcher, with time passing
NextServer ==
    \/ \E d \in SrvSteps : SrvTick(d)
    \/ \E i \in Requests, k \in Kinds : Arrive(i, k)
    \/ \E i \in Requests, free \in VramReadings : Admit(i, free)
    \/ \E i \in Requests, stats \in BOOLEAN : Health(i, stats)
    \/ \E i \in Requests : GetModelCheck(i)
    \/ \E i \in Requests : Stamp(i)
    \/ \E i \in Requests : ReturnModel(i)
    \/ \E i \in Requests : GetModelError(i)
    \/ \E i \in Requests : Acquire(i)
    \/ \E i \in Requests : LockedCheck(i)
    \/ \E i \in Requests : LockedError(i)
    \/ \E i \in Requests, ok \in BOOLEAN : Load(i, ok)
    \/ \E i \in Requests, out \in InferOutcomes : Transcribe(i, out)
    \/ WatcherWake
    \/ WatcherCheck
    \/ WatcherIdle
    \/ WatcherStamp
    \/ WatcherAcquire
    \/ WatcherLockedCheck
    \/ WatcherRecheck
    \/ WatcherUnload
    \/ WatcherClear

SpecServer == Init /\ [][NextServer]_vars

\* requests for a transcription with enough free VRAM, their times of arrival kept;
\* the clock read at the watcher's checks only
StampSteps == {IDLE_CHECK_INTERVAL_SECONDS}
NextStamp ==
    \/ \E d \in StampSteps : SrvTick(d)
    \/ \E i \in Requests : ArriveTimed(i, "transcribe")
    \/ \E i \in Requests : Admit(i, Unset)
    \/ \E i \in Requests : GetModelCheck(i)
    \/ \E i \in Requests : Stamp(i)
    \/ \E i \in Requests : ReturnModel(i)
    \/ \E i \in Requests : GetModelError(i)
    \/ \E i \in Requests : Acquire(i)
    \/ \E i \in Requests : LockedCheck(i)
    \/ \E i \in Requests : LockedError(i)
    \/ \E i \in Requests, ok \in BOOLEAN : Load(i, ok)
    \/ \E i \in Requests, out \in InferOutcomes : Transcribe(i, out)
    \/ WatcherWake
    \/ WatcherCheck
    \/ WatcherIdle
    \/ WatcherStamp
    \/ WatcherAcquire
    \/ WatcherLockedCheck
    \/ WatcherRecheck
    \/ WatcherUnload
    \/ WatcherClear

SpecStamp == Init /\ [][NextStamp]_vars

\* one call of _call_whisper_api, every attempt answered in any of the ways above
InitClient == InitBot /\ cl_pc = "send" /\ CallFresh /\ InitServer

NextClient ==
    \/ \E r \in Responses : ClientAttempt(r)
    \/ ClientWake

SpecClient == InitClient /\ [][NextClient]_vars

\* successful /transcribe exchanges, one at a time
NextExchange ==
    \/ \E b \in BOOLEAN : CallPost(b)
    \/ \E f \in FieldValues \cup {Missing} : OtherPost(f)
    \/ \E res \in WhisperResults : Respond(res)
    \/ CallReturn

SpecExchange == Init /\ [][NextExchange]_vars

\* texts sent by send_text_in_chunks, one at a time
NextChunks ==
    \/ \E t \in SentTexts : SendText(t)
    \/ ChunkCall
    \/ ChunkRaw
    \/ SendChunks

SpecChunks == Init /\ [][NextChunks]_vars

\* deliveries with time markers, one at a time
NextMarks ==
    \/ \E n \in 1..MaxSegments : StampedJob(n)
    \/ \E starts \in ResultStarts : SegmentResult(starts)
    \/ FormatMarkers

SpecMarks == Init /\ [][NextMarks]_vars

\* VRAM checks, one at a time
NextVram ==
    \/ \E s \in VramStats : VramRead(s)
    \/ VramCheck

SpecVram == Init /\ [][NextVram]_vars
\* ------------------------------------------------------------ properties
\* the items accepted and not yet finished: the queue and the job in progress
Accepted ==
    {audio_queue[i] : i \in 1..Len(audio_queue)} \cup (IF pc # "idle" THEN {job} ELSE {})

\* the segment files split_audio gave the job in progress
SegmentFiles == {segments[i] : i \in 1..Len(segments)}

\* C1: the worker starts the jobs in the order of their put: the k-th job it takes is
\* the item of the k-th put, whichever handler put it and whoever owns it, and the queue
\* holds, in the order of their put, exactly the items not taken yet.
C1_Fifo ==
    /\ puts = started + Len(audio_queue)
    /\ (started > 0 => job.ticket = started)
    /\ \A i \in 1..Len(audio_queue) : audio_queue[i].ticket = started + i

\* the second job taken is the second owner's voice message, while the first owner's
\* retried job, put after it, waits
C1_Witness ==
    /\ started = 2
    /\ job.user = 2 /\ job.via = "voice"
    /\ Len(audio_queue) = 1
    /\ audio_queue[1].via = "retry" /\ audio_queue[1].user = 1

\* C2: at most one job is between get() and the end of its cleanup block, and whenever
\* the worker is about to take the next job the previous one has ended delivered, busy
\* or failed with its cleanup block run.
C2_OneJob ==
    /\ started - cleanups \in {0, 1}
    /\ (started - cleanups = 1) <=> (pc # "idle")
    /\ (alive /\ pc = "idle" /\ started > 0) =>
           outcome \in {"delivered", "busy", "failed"}

\* a second job is in its segment loop after the first one was cleaned up
C2_Witness ==
    /\ started = 2 /\ cleanups = 1
    /\ pc = "loop" /\ job.user = 2

\* C3: of two voice messages with the same (user_id, file_id) checked by handle_voice
\* less than DUPLICATE_COOLDOWN_SEC apart, only one is accepted, wherever the second
\* one falls relative to the queueing and processing of the first.
C3_OneOfTwo ==
    \A x, y \in Accepted :
        (/\ x.ticket # y.ticket
         /\ x.via = "voice" /\ y.via = "voice"
         /\ x.user = y.user /\ x.file_id = y.file_id)
        => (x.at - y.at >= DUPLICATE_COOLDOWN_SEC \/ y.at - x.at >= DUPLICATE_COOLDOWN_SEC)

\* C4: when a job ends busy, the busy call was its last inference call, nothing was
\* delivered, and pending_retry holds for its owner the (file_id, file_path) of the job.
C4_BusyShortCircuit ==
    [][(pc = "busy_notice" /\ outcome' = "busy") =>
          /\ last_call.res = "busy" /\ last_call.seg = busy_seg
          /\ delivered' = {}
          /\ job.user \in DOMAIN pending_retry'
          /\ pending_retry'[job.user] = <<job.file_id, job.file_path>>]_vars

\* C5: a retry action that finds an entry of a job that has ended busy puts that job
\* on the queue.
C5_RetryResubmits ==
    (last_retry.pending # <<>> /\ last_retry.ended) => last_retry.answer = "enqueued"

\* C6: when a job has ended delivered, busy or failed, neither its source file nor its .wav
\* file nor any of its segment files is on disk.
C6_Cleanup ==
    [][(cleanups' = cleanups + 1 /\ outcome' \in {"delivered", "busy", "failed"}) =>
          files' \cap ({job.file_path, WavPath(job.file_path)} \cup SegmentFiles) = {}]_vars

\* C7: a job the worker has left ended in exactly one of delivered, busy or failed,
\* with its cleanup block run once.
C7_TerminalOutcome ==
    (started > 0 /\ pc = "idle") =>
        (outcome \in {"delivered", "busy", "failed"} /\ cleanups = started)

\* C8: an attempt answered 503 ends the call with WhisperBusyError, whatever the body.
C8_Busy503 ==
    resp.status = 503 => (cl_pc = "done" /\ result = "busy")

\* C9: the client waits for another attempt only after an attempt without a response
\* (connection failure, timeout) or with a 5xx response.
C9_ResendOnly ==
    cl_pc = "sleep" => (resp.status = 0 \/ resp.status >= 500)

\* C10: a call sends at most WHISPER_RETRIES + 1 requests, waits 3 * k seconds after
\* the k-th failed attempt, returns a dictionary only for an attempt that succeeded, and
\* raises when the last attempt fails.
C10_Backoff ==
    /\ requests <= WHISPER_RETRIES + 1
    /\ Len(sleeps) = (IF cl_pc = "done" THEN requests - 1 ELSE requests)
    /\ \A k \in 1..Len(sleeps) : sleeps[k] = 3 * k
    /\ (result = "dict") => (resp.status = 200 /\ resp.body \notin {"not_json", "bad_json"})
    /\ (cl_pc = "done" /\ requests = WHISPER_RETRIES + 1 /\ Classify(resp) = "retry")
           => result = "error"

\* three attempts without a response: two waits of 3 and 6 seconds, then the error
C10_Witness ==
    /\ cl_pc = "done" /\ requests = WHISPER_RETRIES + 1
    /\ sleeps = <<3, 6>>
    /\ resp = ConnFailure /\ result = "error"

\* a 5xx response other than 503 whose JSON "error" text tells of an out-of-memory
OomResponse(r) == r.status >= 500 /\ r.status # 503 /\ r.body = "oom_text"

\* C11: an attempt answered by a 5xx other than 503 with an out-of-memory error text
\* ends the call with WhisperBusyError and without a wait or another request; the
\* segment loop then stops at that segment, writes the pending_retry entry of the job
\* and no last_processed entry, and the job ends busy.
C11_OomIsBusy ==
    [][/\ (requests' = requests + 1 /\ OomResponse(resp')) =>
             (cl_pc' = "done" /\ result' = "busy" /\ sleeps' = sleeps)
       /\ (cl_pc = "done" /\ cl_pc' = "off" /\ OomResponse(resp)) =>
             /\ pc' = "busy_notice" /\ seg_i' = seg_i
             /\ job.user \in DOMAIN pending_retry'
             /\ pending_retry'[job.user] = <<job.file_id, job.file_path>>
             /\ last_processed' = last_processed
       /\ (pc = "busy_notice" /\ pc' = "idle") => outcome' = "busy"]_vars

\* a plain 500, a wait, then a 500 with the out-of-memory text: the busy notice
C11_Witness ==
    /\ cl_pc = "off" /\ OomResponse(resp)
    /\ requests = 2 /\ sleeps = <<3>>
    /\ pc = "busy_notice" /\ job.user \in DOMAIN pending_retry


\* ------------------------------------------------------- the segment loop
CallFailed == pc = "loop" /\ last_call' # last_call /\ last_call'.res = "error"

\* C17: an inference call for segment i that ends with an error other than
\* WhisperBusyError adds nothing to the accumulators and writes no retry entry; the
\* segment file is removed, the loop goes on with segment i+1 or, after the last
\* segment, the job goes on to deliver; the loop never leaves to the failure notice.
C17_SegmentSkip ==
    [][/\ CallFailed =>
            /\ last_call'.seg = seg_i
            /\ full_transcription' = full_transcription
            /\ full_translation' = full_translation
            /\ pending_retry' = pending_retry
            /\ files' = DropSegment(files, segments[seg_i], WavPath(job.file_path))
            /\ IF seg_i < Len(segments)
               THEN pc' = "loop" /\ seg_i' = seg_i + 1 /\ task' = "first"
               ELSE pc' = "deliver"
       /\ pc = "loop" => pc' \in {"loop", "deliver", "busy_notice", "idle"}
       /\ (pc = "loop" /\ pc' = "idle") => outcome' = "cancelled"
       /\ (pc \in {"deliver", "deliver2"} /\ pc' = "idle") =>
             outcome' \in {"delivered", "cancelled"}]_vars
C17_Witness ==
    /\ pc = "deliver" /\ Len(segments) = 2
    /\ last_call = [seg |-> 2, task |-> "translate", res |-> "ok"]
    /\ tally.calls = 4 /\ ~tally.clean
    /\ full_transcription /\ full_translation

CallMade == pc = "loop" /\ last_call' # last_call /\ last_call'.res # None

\* C18: the first call for a segment is a translate call when the owner's mode is
\* fast and a transcribe call when it is full; a second call for the segment is made
\* exactly when that transcribe call succeeded, and it is a translate call; there is
\* no third.  A loop that ends without any error has made one call for each segment
\* begun in fast mode and two for each begun in full mode: n and 2n for n segments.
C18_CallsPerMode ==
    [][/\ CallMade =>
            /\ last_call'.seg = seg_i
            /\ task = "first" =>
                  last_call'.task = (IF user_mode[job.user] = "fast"
                                     THEN "translate" ELSE "transcribe")
            /\ task = "second" =>
                  /\ last_call = [seg |-> seg_i, task |-> "transcribe", res |-> "ok"]
                  /\ last_call'.task = "translate"
                  /\ task' = "first"
            /\ (task' = "second") <=>
                  (last_call'.task = "transcribe" /\ last_call'.res = "ok")
            /\ task' = "second" => (pc' = "loop" /\ seg_i' = seg_i)
            /\ (task' = "first" /\ pc' = "loop") => seg_i' = seg_i + 1
            /\ tally'.calls = tally.calls + 1
       /\ (pc = "loop" /\ pc' = "deliver" /\ tally'.clean) =>
            tally'.calls = tally'.fast + 2 * (Len(segments) - tally'.fast)]_vars
C18_Witness ==
    /\ pc = "deliver" /\ Len(segments) = 2
    /\ tally.clean /\ tally.fast = 0 /\ tally.calls = 4

IterationBegins == pc' = "loop" /\ seg_i' # seg_i
LoopEnds == pc = "loop" /\ pc' \in {"deliver", "busy_notice"}

NotWritten(d, e) == \A k \in DOMAIN e : k \in DOMAIN d /\ e[k] = d[k]
JobBegins == pc = "idle" /\ started' = started + 1

\* C20: a job whose source file is missing, whose conversion leaves no .wav or fails,
\* whose split fails or gives no segment goes to the failure notice without any
\* inference call; from there it ends failed through the cleanup block, which removes
\* the source and the .wav; from its start to its end no entry is written to
\* last_processed or pending_retry.
C20_ToolFailure ==
    [][/\ JobBegins =>
            /\ (job'.file_path \notin files \/ WavPath(job'.file_path) \notin files'
                   \/ segments' = <<>>) <=> (pc' = "notice")
            /\ pc' = "notice" =>
                  /\ segments' = <<>> /\ tally'.calls = 0 /\ last_call' = NoCall
                  /\ pending_retry' = pending_retry /\ last_processed' = last_processed
       /\ pc = "notice" =>
            /\ pc' \in {"notice", "idle"}
            /\ tally'.calls = 0 /\ last_call' = NoCall
            /\ NotWritten(pending_retry, pending_retry')
            /\ NotWritten(last_processed, last_processed')
       /\ (pc = "notice" /\ pc' = "idle") =>
            /\ outcome' = "failed" /\ cleanups' = cleanups + 1
            /\ job.file_path \notin files' /\ WavPath(job.file_path) \notin files'
            /\ pending_retry' = pending_retry /\ last_processed' = last_processed]_vars
C20_Witness ==
    /\ pc = "idle" /\ alive /\ outcome = "failed" /\ started = 1 /\ cleanups = 1
    /\ PartPath(WavPath(job.file_path), 0) \in files
    /\ job.file_path \notin files /\ WavPath(job.file_path) \notin files
    /\ pending_retry = EmptyDict /\ last_processed = EmptyDict

IterationEnds == pc = "loop" /\ (seg_i' # seg_i \/ pc' # "loop")

\* C21: when the iteration of a segment ends (with a result, a skipped error, Busy,
\* or the cancellation of the worker) the file of the segment is gone, unless the
\* segment is the .wav itself: that one stays on disk through the loop and the
\* delivery and is removed by the cleanup block, which runs once.  Between the two
\* calls of an iteration the segment file stays.
C21_SegmentRemoved ==
    [][/\ IterationEnds =>
            LET seg == segments[seg_i]
                wav == WavPath(job.file_path)
            IN  IF seg # wav
                THEN seg \in files /\ seg \notin files'
                ELSE wav \in files /\ (pc' # "idle" => wav \in files')
       /\ (pc = "loop" /\ ~IterationEnds) =>
            (segments[seg_i] \in files /\ segments[seg_i] \in files')
       /\ (pc \in {"deliver", "deliver2", "busy_notice"} /\ pc' # "idle"
             /\ segments = <<WavPath(job.file_path)>>) => WavPath(job.file_path) \in files'
       /\ (pc # "idle" /\ pc' = "idle") =>
            /\ WavPath(job.file_path) \notin files'
            /\ cleanups' = cleanups + 1]_vars
C21_Witness ==
    /\ pc = "loop" /\ seg_i = 2 /\ last_call.seg = 1
    /\ segments[1] \notin files /\ segments[2] \in files
    /\ WavPath(job.file_path) \in files

BusyBreak(u) == pc = "loop" /\ pc' = "busy_notice" /\ job.user = u
RetryActs(u) ==
    \/ retries' = retries + 1 /\ last_retry'.user = u
    \/ answering'[u] = answering[u] - 1

\* C22: pending_retry has at most one entry for an owner; an entry is written only
\* when a job of that owner breaks out of its loop on Busy, and that job ends busy;
\* the entry written is the (file_id, file_path) of that job, whatever entry was
\* there; an entry is removed only by a retry action of its owner.
C22_OneEntry ==
    [][/\ DOMAIN pending_retry' \subseteq Users
       /\ \A u \in Users :
            LET had == u \in DOMAIN pending_retry
                has == u \in DOMAIN pending_retry'
            IN  /\ (has /\ (~had \/ pending_retry'[u] # pending_retry[u])) => BusyBreak(u)
                /\ BusyBreak(u) =>
                      (has /\ pending_retry'[u] = <<job.file_id, job.file_path>>)
                /\ (had /\ ~has) => RetryActs(u)
       /\ (pc = "busy_notice" /\ pc' = "idle") => outcome' = "busy"]_vars
C22_Witness ==
    /\ pc = "busy_notice" /\ job.file_id = "b" /\ job.ticket = 2 /\ retries = 0
    /\ SourcePath("a") \notin files /\ cleanups = 1 /\ alive
    /\ PartPath(WavPath(SourcePath("a")), 0) \notin files
    /\ PartPath(WavPath(SourcePath("a")), 1) \in files
    /\ pending_retry = Put(EmptyDict, 1, <<"b", SourcePath("b")>>)

\* C23: the queue is never full: whatever its length and whatever the worker does, a
\* downloaded voice message can be put at once, and every put (of handle_voice and
\* of retry_callback) appends one item to the queue and leaves the worker where it is.
C23_SubmitAlways ==
    [][/\ ~QueueFull(audio_queue')
       /\ \A d \in downloading : ENABLED DownloadDone(d, TRUE)
       /\ puts' = puts + 1 =>
            /\ Len(audio_queue') = Len(audio_queue) + 1
            /\ audio_queue'[Len(audio_queue')].ticket = puts'
            /\ pc' = pc /\ job' = job
       /\ Len(audio_queue') > Len(audio_queue) => puts' = puts + 1]_vars
C23_Witness ==
    /\ pc = "busy_notice" /\ job.ticket = 1
    /\ Len(audio_queue) = 2 /\ puts = 3
    /\ audio_queue[2].via = "retry"

VoiceHandled == voices' = voices + 1
TooOld(ts) == now - ts > LAST_PROCESSED_MAX_AGE

\* C24: handle_voice evicts before it looks up: after it, last_processed is what it
\* was without the entries older than LAST_PROCESSED_MAX_AGE, so none of those is
\* there at the lookup; a voice message is rejected only with an entry younger than
\* DUPLICATE_COOLDOWN_SEC present, never by an entry that old.
C24_EvictBeforeLookup ==
    [][VoiceHandled =>
          /\ DOMAIN last_processed' =
                {k \in DOMAIN last_processed : ~TooOld(last_processed[k])}
          /\ \A k \in DOMAIN last_processed' : last_processed'[k] = last_processed[k]
          /\ downloading' = downloading =>
                \E k \in DOMAIN last_processed' :
                    now - last_processed'[k] < DUPLICATE_COOLDOWN_SEC]_vars
C24_Witness ==
    /\ now = 601 /\ outcome = "delivered" /\ pc = "idle"
    /\ voices = 2 /\ last_processed = EmptyDict
    /\ Cardinality(downloading) = 1

SendFailed == pc \in {"status", "loop", "deliver", "deliver2"}
                 /\ tally'.unsent > tally.unsent

\* C25: send_message_safe tries at most 3 times and gives None, not an exception,
\* when every try fails; a send or a progress edit that fails leaves the job on its
\* way: after a lost status message the loop begins, the loop records the
\* duplicate-guard entry when it is through, and the delivery ends the job delivered
\* with the cleanup done, whatever arrived.
C25_SendNeverFails ==
    [][/\ tally'.tries \in 0..3
       /\ (pc = "status" /\ pc' \notin {"status", "idle"}) =>
            /\ pc' = "loop"
            /\ ~progress_msg_id' => (tally'.tries = 3 /\ tally'.unsent = tally.unsent + 1)
       /\ SendFailed => (pc' # "notice" /\ (pc' = "idle" => outcome' # "failed"))
       /\ (pc = "loop" /\ pc' = "deliver") =>
            /\ <<job.user, job.file_id>> \in DOMAIN last_processed'
            /\ last_processed'[<<job.user, job.file_id>>] = now
       /\ pc = "deliver" => pc' \in {"deliver", "deliver2", "idle"}
       /\ (pc = "deliver2" /\ pc' = "idle" /\ alive') =>
            /\ outcome' = "delivered" /\ cleanups' = cleanups + 1
            /\ job.file_path \notin files' /\ WavPath(job.file_path) \notin files'
            /\ full_translation => ("translation" \in delivered' <=>
                                       tally'.unsent = tally.unsent)]_vars
C25_Witness ==
    /\ pc = "idle" /\ alive /\ outcome = "delivered" /\ cleanups = 1
    /\ tally.unsent = 3 /\ delivered = {}
    /\ <<job.user, job.file_id>> \in DOMAIN last_processed

\* the words the server takes for true, in any case
Truthy == {"1", "true", "True", "TRUE", "yes", "Yes"}

\* C26: the body of a successful /transcribe answer has a segments field only if the
\* request's return_segments was a word for true, and the result _call_whisper_api
\* returns has segments in it only if the worker asked for them (else its list is empty).
C26_SegmentsOnRequest ==
    /\ xchg.step \in {"answered", "returned"} =>
         /\ "segments" \in DOMAIN xchg.body =>
               /\ xchg.field \in Truthy
               /\ "segments" \in DOMAIN xchg.whisper
               /\ xchg.body.segments = xchg.whisper.segments
         /\ xchg.by = "bot" => (xchg.field \in Truthy <=> xchg.arg)
    /\ xchg.step = "returned" =>
         /\ xchg.result.segments # <<>> => xchg.arg
         /\ xchg.result.segments = Get(xchg.body, "segments", <<>>)
C26_Witness ==
    /\ xchg.step = "returned" /\ ~xchg.arg
    /\ "segments" \in DOMAIN xchg.whisper /\ xchg.whisper.segments = <<"s1", "s2">>
    /\ "segments" \notin DOMAIN xchg.body
    /\ xchg.result.segments = <<>>

\* StartJob took the .wav for too large and split_audio returned a non-empty list
SplitReturned ==
    /\ started' = started + 1 /\ pc' = "status"
    /\ segments' # <<WavPath(job'.file_path)>>

\* C27: split_audio returns the parts 0 .. k-1 of the .wav in that order, k being the
\* smallest index whose part is not on disk: every path returned exists, none is
\* left out below k, and parts beyond a missing index are not returned, however many
\* parts the tool wrote.
C27_SegmentsContiguous ==
    [][SplitReturned =>
         LET wav == WavPath(job'.file_path)
             k == Len(segments')
         IN  /\ \A i \in 1..k : segments'[i] = PartPath(wav, i - 1) /\ segments'[i] \in files'
             /\ PartPath(wav, k) \notin files'
             /\ \A j \in 0..MaxLongSegments : PartPath(wav, j) \notin files' => k <= j]_vars
C27_Witness ==
    /\ pc = "status" /\ segments = <<PartPath(WavPath(job.file_path), 0)>>
    /\ PartPath(WavPath(job.file_path), 1) \notin files
    /\ PartPath(WavPath(job.file_path), 2) \in files

\* C29: _chunk_then_escape comes to an end for every text, each chunk it returns is
\* at most max_escaped long after escaping, and each message of send_text_in_chunks
\* is at most max_length long.
C29_ChunksFit ==
    /\ txt.step # "RecursionError"
    /\ txt.step \in {"chunk", "sent"} => \A i \in 1..Len(txt.out) : TLen(txt.out[i]) <= txt.max
    /\ txt.step = "sent" => \A i \in 1..Len(txt.msgs) : txt.msgs[i] <= MAX_LENGTH

\* C32: while main polls, the audio_worker task is alive, so that a job on audio_queue
\* is dequeued in the end: no item is on the queue, put before or after start_polling
\* ended once, with no worker left to get it.
C32_WorkerAlive == audio_queue # <<>> => alive

\* C33: every segment of a job is processed in the mode that was in force when the job
\* started, whatever the owner's process_mode_callback does in between: of the seg_i
\* iterations that made their first call so far, either all read the mode fast or
\* none did.
FirstCalls == IF pc = "loop" /\ task = "first" THEN seg_i - 1 ELSE seg_i
C33_OneModePerJob ==
    pc \in {"loop", "deliver", "deliver2"} => tally.fast \in {0, FirstCalls}

\* audio_worker takes the next item off the queue
Dequeued == started' = started + 1

\* C34: a job put on the queue by handle_voice still finds its source file when it
\* starts, whatever jobs were queued or processed at the same time: no other job's
\* cleanup has removed it.
C34_SourceKept ==
    [][(Dequeued /\ job'.via = "voice") => job'.file_path \in files]_vars

\* C35: whenever pending_retry holds (file_id, file_path) for an owner and no job is
\* being processed, the file at file_path is on disk.
C35_RetryFileKept ==
    pc = "idle" => \A u \in DOMAIN pending_retry : pending_retry[u][2] \in files

\* process_audio_async is past line 871, where it writes its duplicate-guard entry
PastGuard == pc \in {"deliver", "deliver2", "raised"}
\* the finally block of a job has run
JobEnds == cleanups' = cleanups + 1

\* C36: an entry of last_processed is written or changed only by the step that ends
\* the segment loop of a job after its last segment, the last call not Busy; a job
\* that ends busy or failed has not written its entry; and retry_callback, when it
\* finds an entry whose file is on disk, enqueues it whatever last_processed holds.
C36_GuardFrame ==
    [][/\ ~NotWritten(last_processed, last_processed') =>
            /\ pc = "loop" /\ pc' = "deliver"
            /\ seg_i = Len(segments) /\ last_call'.res # "busy"
       /\ (JobEnds /\ outcome' \in {"busy", "failed"}) => ~PastGuard
       /\ (retries' = retries + 1 /\ last_retry'.pending # <<>>
              /\ last_retry'.pending[2] \in files) =>
            /\ last_retry'.answer = "enqueued"
            /\ last_processed' = last_processed]_vars

\* some call of the job returned a text
HasText(transcription, translation) == transcription \/ translation

\* C37: a job that ends delivered had a transcription or a translation to deliver; a
\* job whose segment loop ends with no call answered and no Busy goes to the failure
\* notice and writes no entry to last_processed.
C37_DoneHasText ==
    [][/\ (JobEnds /\ outcome' = "delivered") =>
            HasText(full_transcription, full_translation)
       /\ (pc = "loop" /\ pc' # "loop" /\ alive' /\ last_call'.res # "busy"
              /\ ~HasText(full_transcription', full_translation')) =>
            /\ pc' = "notice"
            /\ last_processed' = last_processed]_vars

\* retry_callback ran for the button retry_<b> that a busy notice gave to owner u
Pressed(u, b) ==
    /\ retries' = retries + 1
    /\ last_retry'.user = u /\ last_retry'.button = b
    /\ <<u, b>> \in buttons

\* C38: when retry_callback runs for a Retry button that a busy notice of job (u, b)
\* carried and puts an item on the queue, the item has the file_id b of that button.
C38_RetryOwnJob ==
    [][\A u \in Users, b \in {"a", "b"} :
          (Pressed(u, b) /\ last_retry'.answer = "enqueued") =>
              audio_queue'[Len(audio_queue')].file_id = b]_vars

\* the offset a marker shows, in seconds
MarkerSeconds(m) == m.mm * 60 + m.ss

\* C39: in a text delivered with timestamps every marker shows the offset of its
\* line from the start of the whole recording, and the markers do not decrease from
\* the first line to the last, for jobs of one segment and of more.
C39_MarkersFromStart ==
    txt.step = "marked" =>
        /\ \A k \in 1..Len(txt.lines) : MarkerSeconds(txt.lines[k]) = txt.at[k]
        /\ Ordered([k \in 1..Len(txt.lines) |-> MarkerSeconds(txt.lines[k])])

\* ------------------------------------------------------- whisper_server.py
Refusal == [status |-> 503, body |-> "gpu_busy"]
TooLittle(free) == free # Unset /\ free < VRAM_THRESHOLD_FREE_MB

\* C12: a /transcribe request with audio that finds free VRAM below the threshold is
\* answered 503 gpu_busy at once, whether the model is loaded or not: it never enters
\* get_model or the inference, and the model, the cached load error, the last-used
\* stamp and the number of loads are as they were before.
C12_Admission ==
    [][\A i \in Requests :
          /\ (rq[i].pc = "start" /\ rq[i].kind = "transcribe" /\ rq'[i] # rq[i]
                 /\ TooLittle(rq'[i].free)) =>
                /\ rq'[i].pc = "done" /\ rq'[i].resp = Refusal
                /\ model' = model /\ model_load_error' = model_load_error
                /\ last_used_monotonic' = last_used_monotonic
                /\ loads' = loads
          /\ TooLittle(rq'[i].free) => (rq'[i].pc = "done" /\ rq'[i].resp = Refusal)]_vars
C12_Witness ==
    /\ model /\ last_used_monotonic # Unset /\ loads = 1
    /\ rq[1].resp = [status |-> 200, body |-> "object"]
    /\ rq[2].pc = "done" /\ rq[2].free = 1024 /\ rq[2].resp = Refusal

\* the lines of get_model inside with _model_lock
Locked == {"g58", "g59", "g60", "g61", "g67", "g80"}
Loading == {i \in Requests : rq[i].pc = "g67"}

\* C13: callers of get_model that find the model unloaded go through the lock one at
\* a time: no two loads are in progress at once, the model is constructed at most
\* once for each time it was unloaded, and a caller that gets the lock after the
\* loader leaves with the loaded instance or with the recorded load failure, without
\* loading.
C13_OneLoad ==
    [][/\ Cardinality(Loading') <= 1
       /\ loads' <= unloads' + 1
       /\ \A i \in Requests : rq'[i].pc \in Locked => model_lock' = i
       /\ \A i \in Requests :
             (rq[i].pc \in {"g58", "g59", "g60", "g61"} /\ rq'[i].pc \notin Locked) =>
                /\ loads' = loads
                /\ \/ rq'[i].pc = "infer" /\ rq'[i].got /\ model
                   \/ rq'[i].pc = "done" /\ rq'[i].resp.status = 500 /\ model_load_error
       /\ \A i \in Requests :
             (rq[i].pc = "g58" /\ rq'[i].pc = "g61" /\ ~model_load_error) =>
                loads = unloads]_vars
C13_Witness ==
    /\ rq[1].pc \in {"g85", "infer", "done"} /\ rq[2].pc = "g60"
    /\ model /\ loads = 1 /\ unloads = 0

\* the lines of get_model before it loads or returns
Entering == {"g50", "g53", "g56", "g58", "g61"}
Raised(r) == r.pc = "done" /\ r.resp = [status |-> 500, body |-> "object"] /\ ~r.got

\* C14: once a load has failed the failure stays recorded, no load is begun again,
\* the model is never loaded, and every call of get_model made from then on ends by
\* raising (the request is answered 500) without reaching a line that loads or
\* returns a model.
C14_FailureCached ==
    [][model_load_error =>
          /\ model_load_error' /\ ~model' /\ loads' = loads
          /\ Loading' = {}
          /\ \A i \in Requests :
                (rq[i].pc \in Entering /\ rq'[i] # rq[i]) =>
                    (rq'[i].pc \in Entering \/ Raised(rq'[i]))]_vars
C14_Witness ==
    /\ model_load_error /\ ~model /\ loads = 1
    /\ \A i \in Requests : rq[i].kind = "transcribe" /\ rq[i].free = 4096 /\ Raised(rq[i])

\* C15: the watcher sets the model to unloaded only when no request has stamped
\* last-used within the IDLE_UNLOAD_SECONDS before that moment.
C15_UnloadOnlyIdle ==
    [][(model /\ ~model') =>
          (last_used_monotonic = Unset \/ IdleLongEnough(mono, last_used_monotonic))]_vars

HealthAnswered(i) == rq[i].pc = "start" /\ rq[i].kind = "health" /\ rq'[i].pc = "done"
Success == [status |-> 200, body |-> "object"]

C28_StampedSinceCall ==
    [][\A i \in Requests :
          (rq[i].pc = "infer" /\ rq'[i].resp = Success) =>
              /\ last_used_monotonic' # Unset
              /\ last_used_monotonic' >= rq[i].since]_vars

\* C30: when get_model returns on its fast path (line 52) instead of raising, what
\* it returns is a loaded model, never None, however the watcher's unload is
\* interleaved with lines 50-52.
C30_ReturnsLoadedModel ==
    [][\A i \in Requests :
          (rq[i].pc = "g52" /\ rq'[i].pc = "infer") => rq'[i].got]_vars

\* a request thread inside model.transcribe of a model that get_model handed to it
Inferring(r) == r.pc = "infer" /\ r.got

\* C31: the watcher never sets _model = None while an inference on a model obtained
\* through get_model is still in progress, however long that inference runs.
C31_NoUnloadInUse ==
    [][(model /\ ~model') => \A i \in Requests : ~Inferring(rq[i])]_vars

\* both statistics are there
VramKnown == xchg.used # Unset /\ xchg.total # Unset

\* C40: check_vram_available gives true exactly when a statistic is missing or
\* total_mb - used_mb is at least VRAM_THRESHOLD_FREE_MB; it gives false exactly when
\* both are there and the free amount is below the threshold.
C40_VramAdmission ==
    xchg.step = "checked" =>
        /\ xchg.ok <=> (~VramKnown \/ xchg.total - xchg.used >= VRAM_THRESHOLD_FREE_MB)
        /\ ~xchg.ok <=> (VramKnown /\ xchg.total - xchg.used < VRAM_THRESHOLD_FREE_MB)

\* a check passed with exactly the threshold free
C40_Witness ==
    /\ xchg.step = "checked" /\ VramKnown
    /\ xchg.total - xchg.used = VRAM_THRESHOLD_FREE_MB
    /\ xchg.ok

====
